---- MODULE Spec2Model ----
(***************************************************************************)
(* State-machine model of the HireChain backend: the Entity Store (gigs,   *)
(* applications, invitations, XP, profiles, messages, reviews, rewards),   *)
(* the three channels of the consensus log, the prepare/record handlers of *)
(* routes/gigs.js (and the earlier revision of record-assignment kept in   *)
(* index.js, with the resolver loop of utils/solidityCompiler.js), the     *)
(* application, invitation, review and reward handlers, and the log replay *)
(* of services/hcsSync.service.js.                                         *)
(***************************************************************************)
EXTENDS Integers, Sequences, FiniteSets, TLC

\* ---------------------------------------------------------------------------
\* Bounds and value sets
\* ---------------------------------------------------------------------------
MaxLog == 2
MaxReleases == 2
PageLimit == 1
MaxEvents == 4
BytecodeChunks == 2
MaxAmount == 1
MaxMessages == 2

Gigs == {"g1", "g2"}
Clients == {"c1", "c2"}
Freelancers == {"f1", "f2"}
ContractIds == {"0.0.555"}

Null == "null"
Absent == "absent"
Requests == {"r1", "r2"}
Names == {"ann", "bob"}
RewardIds == {"BRONZE_BADGE"}

\* the platform's operator account (MY_ACCOUNT_ID) and the ledger's accounts
myAccountId == "platform"
Accounts == Clients \cup Freelancers \cup {myAccountId}

xpToAward == 100

\* for (let i = 0; i < 5; i++) of getEntityIdFromTransaction
maxAttempts == 5

TerminalStatuses == {"COMPLETED", "CANCELLED", "COMPLETED_BY_ARBITER", "CANCELLED_BY_ARBITER"}

VARIABLES
    gigs,          \* Gig collection: gigRefId -> stored gig document
    gigsTopic,     \* gig channel of the consensus log: sequence of messages
    applications,  \* Application collection: <<gigRefId, freelancerId>> -> status
    invitations,   \* Invitation collection: <<gigRefId, freelancerId>> -> status
    xp,            \* XP collection: account -> xpPoints
    profiles,      \* Profile collection: userAccountId -> stored profile document
    last,          \* the request handled last and its response
    acc,           \* in-flight accept requests (position + loaded document)
    profilesTopic, \* profile channel of the consensus log
    messagesTopic, \* message channel of the consensus log
    messages,      \* Message collection: the stored documents, in insertion order
    res,           \* the record-assignment request of index.js and its resolver loop
    inserted,      \* Application, Review and Reward documents as the store holds them
    ins,           \* in-flight apply / review requests (position + key + response)
    reviews,       \* Review collection: the stored documents, in insertion order
    escrow,        \* the storage of the HireChainEscrow contract on the ledger
    rel            \* in-flight record-release-escrow requests (position + loaded gig)

\* the replay's channels and collection, and the in-flight requests
replayVars == <<profilesTopic, messagesTopic, messages>>

requestVars == <<res, inserted, ins>>

\* the review documents, the escrow contract and the in-flight releases
contractVars == <<reviews, escrow, rel>>

\* no contract is deployed; address(0) is Null.  Next to the storage the
\* record keeps the contract's HBAR balance and the transfers it has made
NoContract ==
    [arbiter |-> Null, client |-> Null, freelancer |-> Null, amount |-> 0,
     currentState |-> "None", balance |-> 0, paid |-> << >>]

vars == <<gigs, gigsTopic, applications, invitations, xp, profiles, last, acc,
          profilesTopic, messagesTopic, messages, res, inserted, ins, reviews,
          escrow, rel>>

\* ---------------------------------------------------------------------------
\* Store helpers
\* ---------------------------------------------------------------------------
\* findOneAndUpdate(..., { upsert: true }) / bulkWrite updateOne upsert on a keyed collection
Upsert(coll, key, doc) == [k \in (DOMAIN coll) \cup {key} |-> IF k = key THEN doc ELSE coll[k]]

\* the request handled last: its operation, parameters and outcome, and the
\* transactions the handler executed on the ledger with the platform's key,
\* and the documents of a query's response body
Response(op, g, who, ok) ==
    [op |-> op, gig |-> g, who |-> who, ok |-> ok, ledger |-> << >>, body |-> << >>]

\* ---------------------------------------------------------------------------
\* Messages built by the prepare handlers
\* ---------------------------------------------------------------------------
\* gigData of prepare-creation
GigCreateMsg(g, c, v) ==
    [type |-> "GIG_CREATE", gigRefId |-> g, clientId |-> c, status |-> "OPEN",
     visibility |-> v, assignedFreelancerId |-> Absent, escrowContractId |-> Absent]

\* updateGigData of prepare-assignment
GigUpdateMsg(g, c, f) ==
    [type |-> "GIG_UPDATE", gigRefId |-> g, clientId |-> c, status |-> "IN_PROGRESS",
     visibility |-> Absent, assignedFreelancerId |-> f, escrowContractId |-> Absent]

\* { ...existing, ...message } restricted to the stored gig fields
MergeGig(existing, message) ==
    [clientId |-> IF message.clientId # Absent THEN message.clientId ELSE existing.clientId,
     status |-> IF message.status # Absent THEN message.status ELSE existing.status,
     visibility |-> IF message.visibility # Absent THEN message.visibility ELSE existing.visibility,
     assignedFreelancerId |-> IF message.assignedFreelancerId # Absent
                              THEN message.assignedFreelancerId ELSE existing.assignedFreelancerId,
     escrowContractId |-> IF message.escrowContractId # Absent
                          THEN message.escrowContractId ELSE existing.escrowContractId]

\* profileData of prepare-profile-creation
\* (portfolioUrl is not among the required fields; Absent: the body had none)
ProfileCreateMsg(a, n) ==
    [type |-> "PROFILE_CREATE", userAccountId |-> a, name |-> n, portfolioUrl |-> Absent]

\* the stored fields a profile message carries
ProfileFields(message) == [name |-> message.name, portfolioUrl |-> message.portfolioUrl]

\* updateOne / findOneAndUpdate({ userAccountId }, { $set: doc }, { upsert: true }):
\* the fields of doc are set, a stored field that doc lacks is kept
SetProfile(coll, a, doc) ==
    Upsert(coll, a,
           IF a \in DOMAIN coll
           THEN [name |-> doc.name,
                 portfolioUrl |-> IF doc.portfolioUrl # Absent
                                  THEN doc.portfolioUrl ELSE coll[a].portfolioUrl]
           ELSE doc)

\* a chat message of the message channel; g = Absent: no gigRefId is carried
GigMessageMsg(g, s) == [type |-> "GIG_MESSAGE", gigRefId |-> g, senderId |-> s]

\* an accept request slot that holds no request
IdleRequest == [pc |-> "idle", app |-> <<Null, Null>>, loaded |-> Null, client |-> Null]

\* no record-assignment request of the index.js revision is in flight
IdleResolve ==
    [pc |-> "idle", gig |-> Null, who |-> Null, i |-> 0, polls |-> 0, waits |-> 0,
     only404 |-> TRUE, result |-> Null]

\* the collections that carry a compound unique index
Collections == {"applications", "reviews", "rewards"}

\* an apply / review request slot that holds no request
IdleInsert == [pc |-> "idle", coll |-> Null, key |-> <<Null, Null>>, status |-> 0]

\* a release request slot that holds no request
IdleRelease ==
    [pc |-> "idle", gig |-> Null, freelancerId |-> Null, found |-> FALSE, upsert |-> "none"]

Init ==
    /\ gigs = << >>
    /\ gigsTopic = << >>
    /\ applications = << >>
    /\ invitations = << >>
    /\ xp = << >>
    /\ last = Response("init", Null, Null, TRUE)
    /\ profiles = << >>
    /\ acc = [r \in Requests |-> IdleRequest]
    /\ profilesTopic = << >>
    /\ messagesTopic = << >>
    /\ messages = << >>
    /\ res = IdleResolve
    /\ inserted = [c \in Collections |-> << >>]
    /\ ins = [r \in Requests |-> IdleInsert]
    /\ reviews = << >>
    /\ escrow = NoContract
    /\ rel = [r \in Requests |-> IdleRelease]

\* ---------------------------------------------------------------------------
\* Gig creation (routes/gigs.js)
\* ---------------------------------------------------------------------------
RecordCreation(gigData) ==
    /\ gigs' = Upsert(gigs, gigData.gigRefId,
                      [clientId |-> gigData.clientId, status |-> gigData.status,
                       visibility |-> gigData.visibility,
                       escrowContractId |-> Null, assignedFreelancerId |-> Null])
    /\ last' = Response("record-creation", gigData.gigRefId, Null, TRUE)
    /\ UNCHANGED <<gigsTopic, applications, invitations, xp, profiles, acc, replayVars, requestVars,
                   contractVars>>

\* ---------------------------------------------------------------------------
\* Assignment (routes/gigs.js, and the earlier revision in index.js)
\* ---------------------------------------------------------------------------
\* a validation that accepts any caller and any status
PrepareAssignmentAnyCaller(g, c) == g \in DOMAIN gigs

PrepareAssignmentValid(g, c) ==
    /\ g \in DOMAIN gigs
    /\ gigs[g].clientId = c
    /\ gigs[g].status = "OPEN"

\* a prepare-assignment that already records the assignment
PrepareAssignmentRecording(g, c, f, executed) ==
    /\ gigs' = IF PrepareAssignmentValid(g, c)
               THEN [gigs EXCEPT ![g].status = "IN_PROGRESS", ![g].assignedFreelancerId = f]
               ELSE gigs
    /\ last' = Response("prepare-assignment", g, f, PrepareAssignmentValid(g, c))
    /\ UNCHANGED <<gigsTopic, applications, invitations, xp, profiles, acc, replayVars,
                   requestVars, contractVars>>

\* the bytecode staging of prepare-assignment: FileCreateTransaction with the
\* first CHUNK_SIZE characters, one FileAppendTransaction per further chunk
StagingOps ==
    [i \in 1..BytecodeChunks |-> IF i = 1 THEN "FileCreate" ELSE "FileAppend"]

\* the 403 before the staging; otherwise the staging, of which `executed`
\* transactions complete before one throws (BytecodeChunks: none throws), and
\* the two unsigned payloads or the 500 of the catch; the store is not written
PrepareAssignment(g, c, f, executed) ==
    /\ last' = IF ~PrepareAssignmentValid(g, c)
               THEN Response("prepare-assignment", g, f, FALSE)
               ELSE [Response("prepare-assignment", g, f, executed = BytecodeChunks)
                        EXCEPT !.ledger = SubSeq(StagingOps, 1,
                                                 IF executed = BytecodeChunks
                                                 THEN BytecodeChunks ELSE executed + 1)]
    /\ UNCHANGED <<gigs, gigsTopic, applications, invitations, xp, profiles, acc, replayVars, requestVars,
                   contractVars>>

\* Gig.findOneAndUpdate({ gigRefId }, { status, assignedFreelancerId })
AssignmentUpdate(gig, f) ==
    [gig EXCEPT !.status = "IN_PROGRESS", !.assignedFreelancerId = f]

RecordAssignment(g, f) ==
    /\ IF g \notin DOMAIN gigs
       THEN /\ gigs' = gigs
            /\ last' = Response("record-assignment", g, f, FALSE)
       ELSE /\ gigs' = [gigs EXCEPT ![g] = AssignmentUpdate(gigs[g], f)]
            /\ last' = Response("record-assignment", g, f, TRUE)
    /\ UNCHANGED <<gigsTopic, applications, invitations, xp, profiles, acc, replayVars, requestVars,
                   contractVars>>

\* index.js revision: write status, worker and the resolved escrowContractId,
\* then merge updateGigData over the record
ResolvedAssignmentUpdate(gig, f, newContractId, updateGigData) ==
    MergeGig([gig EXCEPT !.status = "IN_PROGRESS",
                         !.assignedFreelancerId = f,
                         !.escrowContractId = newContractId],
             updateGigData)

\* resolved = Null: getEntityIdFromTransaction threw (timeout or failed operation)
RecordAssignmentResolved(g, f, resolved) ==
    /\ IF resolved = Null \/ g \notin DOMAIN gigs
       THEN /\ gigs' = gigs
            /\ last' = Response("record-assignment-resolved", g, f, FALSE)
       ELSE /\ gigs' = [gigs EXCEPT ![g] =
                           ResolvedAssignmentUpdate(gigs[g], f, resolved,
                                                    GigUpdateMsg(g, gigs[g].clientId, f))]
            /\ last' = Response("record-assignment-resolved", g, f, TRUE)
    /\ UNCHANGED <<gigsTopic, applications, invitations, xp, profiles, acc, replayVars, requestVars,
                   contractVars>>

\* ---------------------------------------------------------------------------
\* Profiles (routes/profiles.js)
\* ---------------------------------------------------------------------------
\* Profile.findOneAndUpdate({ userAccountId }, profileData, { upsert: true })
RecordProfileCreation(profileData) ==
    /\ profiles' = SetProfile(profiles, profileData.userAccountId, ProfileFields(profileData))
    /\ last' = Response("record-profile-creation", Null, profileData.userAccountId, TRUE)
    /\ UNCHANGED <<gigs, gigsTopic, applications, invitations, xp, acc, replayVars, requestVars,
                   contractVars>>

\* ---------------------------------------------------------------------------
\* Lock and release (routes/gigs.js)
\* ---------------------------------------------------------------------------
RecordLockEscrow(g) ==
    /\ last' = Response("record-lock-escrow", g, Null, TRUE)
    /\ UNCHANGED <<gigs, gigsTopic, applications, invitations, xp, profiles, acc, replayVars, requestVars,
                   contractVars>>

XpOf(a) == IF a \in DOMAIN xp THEN xp[a] ELSE 0

\* an increment that reaches every stored account
IncXpEvery(coll, a, n) ==
    [k \in (DOMAIN coll) \cup {a} |-> (IF k \in DOMAIN coll THEN coll[k] ELSE 0) + n]

\* an update that takes the points away
DecXp(coll, a, n) == Upsert(coll, a, (IF a \in DOMAIN coll THEN coll[a] ELSE 0) - n)

\* XP.findOneAndUpdate({ userAccountId }, { $inc: { xpPoints } }, { upsert: true })
IncXp(coll, a, n) == Upsert(coll, a, (IF a \in DOMAIN coll THEN coll[a] ELSE 0) + n)

\* Gig.findOneAndUpdate({ gigRefId }, { status: 'COMPLETED' })
ReleaseUpdate(gig) == [gig EXCEPT !.status = "COMPLETED"]

\* the awaited call of record-release-escrow that rejects, if any: the status
\* update, the XP increment, or the e-mail (whose rejection is not caught
\* apart from the handler's try/catch)
ReleaseThrows == {"none", "update", "xp", "email"}

\* throws = "update": line 180 rejects and nothing is written.  Otherwise the
\* status is written first; the XP increment and the e-mail are reached only
\* for an assigned gig, the e-mail only when the worker has a profile.
RecordReleaseEscrow(g, throws) ==
    /\ IF g \notin DOMAIN gigs \/ throws = "update"
       THEN /\ gigs' = gigs
            /\ xp' = xp
            /\ last' = Response("record-release-escrow", g, Null, FALSE)
       ELSE LET freelancerId == gigs[g].assignedFreelancerId
                xpThrows == freelancerId # Null /\ throws = "xp"
                emailThrows == /\ freelancerId # Null /\ throws = "email"
                               /\ freelancerId \in DOMAIN profiles
            IN
            /\ freelancerId # Null => XpOf(freelancerId) < MaxReleases * xpToAward
            /\ gigs' = [gigs EXCEPT ![g] = ReleaseUpdate(gigs[g])]
            /\ xp' = IF freelancerId # Null /\ ~xpThrows
                     THEN IncXp(xp, freelancerId, xpToAward) ELSE xp
            /\ last' = Response("record-release-escrow", g, Null, ~xpThrows /\ ~emailThrows)
    /\ UNCHANGED <<gigsTopic, applications, invitations, profiles, acc, replayVars, requestVars,
                   contractVars>>

\* ---------------------------------------------------------------------------
\* Gig channel: submission by the external signer, and replay
\* ---------------------------------------------------------------------------
\* the client signs a prepared TopicMessageSubmitTransaction and submits it
SubmitToGigsTopic(m) ==
    /\ Len(gigsTopic) < MaxLog
    /\ gigsTopic' = Append(gigsTopic, m)
    /\ last' = Response("submit", m.gigRefId, Null, TRUE)
    /\ UNCHANGED <<gigs, applications, invitations, xp, profiles, acc, replayVars, requestVars,
                   contractVars>>

\* the client signs a prepared profile message and submits it
SubmitToProfilesTopic(m) ==
    /\ Len(profilesTopic) < MaxLog
    /\ profilesTopic' = Append(profilesTopic, m)
    /\ last' = Response("submit", Null, m.userAccountId, TRUE)
    /\ UNCHANGED <<gigs, gigsTopic, applications, invitations, xp, profiles, acc,
                   messagesTopic, messages, requestVars,
                   contractVars>>

\* the sender signs a prepared chat message and submits it
SubmitToMessagesTopic(m) ==
    /\ Len(messagesTopic) < MaxLog
    /\ messagesTopic' = Append(messagesTopic, m)
    /\ last' = Response("submit", m.gigRefId, m.senderId, TRUE)
    /\ UNCHANGED <<gigs, gigsTopic, applications, invitations, xp, profiles, acc,
                   profilesTopic, messages, requestVars,
                   contractVars>>

\* a GIG_CREATE materialized with the visibility copied as the message has it
GigFromCreateNoDefault(message) ==
    [clientId |-> message.clientId,
     status |-> "OPEN",
     visibility |-> message.visibility,
     escrowContractId |-> Null,
     assignedFreelancerId |-> Null]

\* { ...message, status: 'OPEN', visibility: message.visibility || 'PUBLIC',
\*   escrowContractId: null, assignedFreelancerId: null }
GigFromCreate(message) ==
    [clientId |-> message.clientId,
     status |-> "OPEN",
     visibility |-> IF message.visibility = Absent THEN "PUBLIC" ELSE message.visibility,
     escrowContractId |-> Null,
     assignedFreelancerId |-> Null]

\* a processor whose GIG_UPDATE branch lacks the gigsMap.has test
gigsProcessorUpserting(gigsMap, message) ==
    IF message.type = "GIG_CREATE"
    THEN Upsert(gigsMap, message.gigRefId, GigFromCreate(message))
    ELSE IF message.type = "GIG_UPDATE"
    THEN Upsert(gigsMap, message.gigRefId,
                MergeGig(IF message.gigRefId \in DOMAIN gigsMap
                         THEN gigsMap[message.gigRefId]
                         ELSE [clientId |-> Null, status |-> Null, visibility |-> Null,
                               escrowContractId |-> Null, assignedFreelancerId |-> Null],
                         message))
    ELSE gigsMap

gigsProcessor(gigsMap, message) ==
    IF message.type = "GIG_CREATE"
    THEN Upsert(gigsMap, message.gigRefId, GigFromCreate(message))
    ELSE IF message.type = "GIG_UPDATE" /\ message.gigRefId \in DOMAIN gigsMap
    THEN [gigsMap EXCEPT ![message.gigRefId] = MergeGig(gigsMap[message.gigRefId], message)]
    ELSE gigsMap

RECURSIVE FoldGigs(_, _)
FoldGigs(log, n) ==
    IF n = 0 THEN << >> ELSE gigsProcessor(FoldGigs(log, n - 1), log[n])

\* profilesMap.set(message.userAccountId, message)
profilesProcessor(profilesMap, message) ==
    IF message.type = "PROFILE_CREATE"
    THEN Upsert(profilesMap, message.userAccountId, ProfileFields(message))
    ELSE profilesMap

RECURSIVE FoldProfiles(_, _)
FoldProfiles(log, n) ==
    IF n = 0 THEN << >> ELSE profilesProcessor(FoldProfiles(log, n - 1), log[n])

\* messagesArray.push(message)
messagesProcessor(messagesArray, message) ==
    IF message.type = "GIG_MESSAGE" /\ message.gigRefId # Absent
    THEN Append(messagesArray, [gigRefId |-> message.gigRefId, senderId |-> message.senderId])
    ELSE messagesArray

RECURSIVE FoldMessages(_, _)
FoldMessages(log, n) ==
    IF n = 0 THEN << >> ELSE messagesProcessor(FoldMessages(log, n - 1), log[n])

NumPages(log) ==
    IF Len(log) = 0 THEN 1 ELSE (Len(log) + PageLimit - 1) \div PageLimit

\* messages handed to the processor when the first okPages page fetches succeed
Fetched(log, okPages) ==
    IF okPages * PageLimit < Len(log) THEN okPages * PageLimit ELSE Len(log)

\* bulkWrite of updateOne { $set: doc, upsert: true } per folded document
BulkUpsertGigs(coll, gigsMap) ==
    [g \in (DOMAIN coll) \cup (DOMAIN gigsMap) |->
        IF g \in DOMAIN gigsMap THEN gigsMap[g] ELSE coll[g]]

BulkUpsertProfiles(coll, profilesMap) ==
    [a \in (DOMAIN coll) \cup (DOMAIN profilesMap) |->
        IF a \in DOMAIN profilesMap THEN SetProfile(coll, a, profilesMap[a])[a] ELSE coll[a]]

\* a replay that does not clear the collection
KeepMany(coll) == coll

\* Message.deleteMany({})
DeleteMany(coll) == << >>

\* Message.insertMany(messagesArray, { ordered: false }); the collection has no
\* unique index over message fields, so every document is stored
InsertMany(coll, messagesArray) == coll \o messagesArray

\* one run; okG, okP, okM: the page fetches that succeed on each channel before
\* one fails (all of them: the channel is read to its end)
SyncFromMirrorNode(okG, okP, okM) ==
    /\ okG \in 0..NumPages(gigsTopic)
    /\ okP \in 0..NumPages(profilesTopic)
    /\ okM \in 0..NumPages(messagesTopic)
    /\ gigs' = BulkUpsertGigs(gigs, FoldGigs(gigsTopic, Fetched(gigsTopic, okG)))
    /\ profiles' = BulkUpsertProfiles(profiles,
                       FoldProfiles(profilesTopic, Fetched(profilesTopic, okP)))
    /\ messages' = InsertMany(DeleteMany(messages),
                       FoldMessages(messagesTopic, Fetched(messagesTopic, okM)))
    /\ last' = Response("replay", Null, Null,
                        /\ okG = NumPages(gigsTopic)
                        /\ okP = NumPages(profilesTopic)
                        /\ okM = NumPages(messagesTopic))
    /\ UNCHANGED <<gigsTopic, applications, invitations, xp, acc,
                   profilesTopic, messagesTopic, requestVars,
                   contractVars>>

\* ---------------------------------------------------------------------------
\* Specification of the gig lifecycle: orchestrator handlers, channel, replay
\* ---------------------------------------------------------------------------
\* the client and visibility each gig id was prepared with
GigOwner(g) == IF g = "g1" THEN "c1" ELSE "c2"

GigVisibility(g) == IF g = "g1" THEN "PUBLIC" ELSE "PRIVATE"

GigData(g) == GigCreateMsg(g, GigOwner(g), GigVisibility(g))

NextGig ==
    \/ \E g \in Gigs : RecordCreation(GigData(g))
    \/ \E g \in Gigs, c \in Clients, f \in Freelancers :
          PrepareAssignment(g, c, f, BytecodeChunks)
    \/ \E g \in Gigs, f \in Freelancers : RecordAssignment(g, f)
    \/ \E g \in Gigs, f \in Freelancers, k \in ContractIds \cup {Null} :
          RecordAssignmentResolved(g, f, k)
    \/ \E g \in Gigs : RecordLockEscrow(g)
    \/ \E g \in Gigs, t \in ReleaseThrows : RecordReleaseEscrow(g, t)
    \/ \E g \in Gigs : SubmitToGigsTopic(GigData(g))
    \/ \E g \in Gigs, f \in Freelancers : SubmitToGigsTopic(GigUpdateMsg(g, GigOwner(g), f))
    \/ \E n \in 0..MaxLog : SyncFromMirrorNode(n, 1, 1)

SpecGig == Init /\ [][NextGig]_vars

\* ---------------------------------------------------------------------------
\* Specification of the release: gigs are created and assigned, workers
\* register profiles, and record-release-escrow runs with each awaited call
\* either resolving or rejecting
\* ---------------------------------------------------------------------------
NextRelease ==
    \/ \E g \in Gigs : g \notin DOMAIN gigs /\ RecordCreation(GigData(g))
    \/ \E f \in Freelancers :
          f \notin DOMAIN profiles /\ RecordProfileCreation(ProfileCreateMsg(f, "ann"))
    \/ \E g \in Gigs, f \in Freelancers : RecordAssignment(g, f)
    \/ \E g \in Gigs, t \in ReleaseThrows : RecordReleaseEscrow(g, t)

SpecRelease == Init /\ [][NextRelease]_vars

\* ---------------------------------------------------------------------------
\* Specification of the replay: the three channels receive messages from their
\* submitters (a channel accepts a message from any client, in any order), and
\* syncFromMirrorNode runs with each page fetch succeeding or failing
\* ---------------------------------------------------------------------------
\* GIG_CREATE as earlier clients wrote it (no visibility) and with a
\* visibility, and GIG_UPDATE of an assignment
GigEvents ==
    {GigCreateMsg(g, GigOwner(g), v) : g \in Gigs, v \in {Absent, "PRIVATE"}}
        \cup {GigUpdateMsg(g, GigOwner(g), "f1") : g \in Gigs}

ProfileEvents == {ProfileCreateMsg("f1", n) : n \in Names}

MessageEvents == {GigMessageMsg(g, "c1") : g \in {"g1", Absent}}

TotalEvents == Len(gigsTopic) + Len(profilesTopic) + Len(messagesTopic)

NextReplay ==
    \/ \E m \in GigEvents : TotalEvents < MaxEvents /\ SubmitToGigsTopic(m)
    \/ \E m \in ProfileEvents : TotalEvents < MaxEvents /\ SubmitToProfilesTopic(m)
    \/ \E m \in MessageEvents : TotalEvents < MaxEvents /\ SubmitToMessagesTopic(m)
    \/ \E okG, okP, okM \in 0..MaxLog : SyncFromMirrorNode(okG, okP, okM)

SpecReplay == Init /\ [][NextReplay]_vars

\* ---------------------------------------------------------------------------
\* Applications (routes/applications.js)
\* ---------------------------------------------------------------------------
\* an apply that skips the look-up of an existing application
ApplyStatusNoConflict(g, f) ==
    IF g \notin DOMAIN gigs THEN 404
    ELSE IF gigs[g].visibility # "PUBLIC" THEN 403
    ELSE IF gigs[g].status # "OPEN" THEN 403
    ELSE 201

\* the HTTP status of POST /applications/apply, its checks in the order of
\* the handler
ApplyStatus(g, f) ==
    IF g \notin DOMAIN gigs THEN 404
    ELSE IF gigs[g].visibility # "PUBLIC" THEN 403
    ELSE IF gigs[g].status # "OPEN" THEN 403
    ELSE IF <<g, f>> \in DOMAIN applications THEN 409
    ELSE 201

ApplyValid(g, f) == ApplyStatus(g, f) = 201

Apply(g, f) ==
    /\ IF ApplyValid(g, f)
       THEN /\ applications' = Upsert(applications, <<g, f>>, "PENDING")
            /\ last' = Response("apply", g, f, TRUE)
       ELSE /\ applications' = applications
            /\ last' = Response("apply", g, f, FALSE)
    /\ UNCHANGED <<gigs, gigsTopic, invitations, xp, profiles, acc, replayVars, requestVars, contractVars>>

\* the owner and status checks of accept
AcceptValid(a, c) ==
    /\ a \in DOMAIN applications
    /\ a[1] \in DOMAIN gigs
    /\ gigs[a[1]].clientId = c
    /\ gigs[a[1]].status = "OPEN"

\* application.status = 'ACCEPTED'; application.save()
SaveAccepted(coll, a) == [coll EXCEPT ![a] = "ACCEPTED"]

\* the bulk rejection without its gigRefId filter
RejectPendingAnyGig(coll, a) ==
    [k \in DOMAIN coll |-> IF k # a /\ coll[k] = "PENDING" THEN "REJECTED" ELSE coll[k]]

\* updateMany({ gigRefId, _id: { $ne: applicationId }, status: 'PENDING' }, { status: 'REJECTED' })
RejectPendingSiblings(coll, a) ==
    [k \in DOMAIN coll |->
        IF k[1] = a[1] /\ k # a /\ coll[k] = "PENDING" THEN "REJECTED" ELSE coll[k]]

AcceptApplication(a, c) ==
    /\ IF AcceptValid(a, c)
       THEN /\ applications' = RejectPendingSiblings(SaveAccepted(applications, a), a)
            /\ last' = Response("accept-application", a[1], a[2], TRUE)
       ELSE /\ applications' = applications
            /\ last' = Response("accept-application", a[1], a[2], FALSE)
    /\ UNCHANGED <<gigs, gigsTopic, invitations, xp, profiles, acc, replayVars, requestVars, contractVars>>

RejectValid(a, c) ==
    /\ a \in DOMAIN applications
    /\ a[1] \in DOMAIN gigs
    /\ gigs[a[1]].clientId = c

RejectApplication(a, c) ==
    /\ IF RejectValid(a, c)
       THEN /\ applications' = [applications EXCEPT ![a] = "REJECTED"]
            /\ last' = Response("reject-application", a[1], a[2], TRUE)
       ELSE /\ applications' = applications
            /\ last' = Response("reject-application", a[1], a[2], FALSE)
    /\ UNCHANGED <<gigs, gigsTopic, invitations, xp, profiles, acc, replayVars, requestVars, contractVars>>

\* ---------------------------------------------------------------------------
\* Specification of applying: gigs of either visibility are recorded and
\* assigned, freelancers apply (again and again), owners reject
\* ---------------------------------------------------------------------------
NextApply ==
    \/ \E g \in Gigs, v \in {"PUBLIC", "PRIVATE"} :
          g \notin DOMAIN gigs /\ RecordCreation(GigCreateMsg(g, GigOwner(g), v))
    \/ \E g \in Gigs, f \in Freelancers : Apply(g, f)
    \/ \E g \in Gigs, f \in Freelancers, c \in Clients : RejectApplication(<<g, f>>, c)
    \/ \E g \in Gigs, f \in Freelancers : RecordAssignment(g, f)

SpecApply == Init /\ [][NextApply]_vars

\* ---------------------------------------------------------------------------
\* Invitations (routes/invitations.js)
\* ---------------------------------------------------------------------------
SendValid(g, f, c) ==
    /\ g \in DOMAIN gigs
    /\ gigs[g].clientId = c
    /\ gigs[g].visibility = "PRIVATE"
    /\ gigs[g].status = "OPEN"
    /\ <<g, f>> \notin DOMAIN invitations
    /\ f \in DOMAIN profiles

SendInvitation(g, f, c) ==
    /\ IF SendValid(g, f, c)
       THEN /\ invitations' = Upsert(invitations, <<g, f>>, "PENDING")
            /\ last' = Response("send-invitation", g, f, TRUE)
       ELSE /\ invitations' = invitations
            /\ last' = Response("send-invitation", g, f, FALSE)
    /\ UNCHANGED <<gigs, gigsTopic, applications, xp, profiles, acc, replayVars, requestVars,
                   contractVars>>

\* invitationId i, requester freelancerId
InvitationResponseValid(i, freelancerId) ==
    /\ i \in DOMAIN invitations
    /\ i[2] = freelancerId
    /\ invitations[i] = "PENDING"

\* an invitation accept that also bulk-rejects the PENDING siblings
AcceptInvitationRejectingSiblings(coll, i) ==
    [k \in DOMAIN coll |->
        IF k = i THEN "ACCEPTED"
        ELSE IF k[1] = i[1] /\ coll[k] = "PENDING" THEN "REJECTED" ELSE coll[k]]

\* invitation.status = 'ACCEPTED'; invitation.save()
AcceptInvitationUpdate(coll, i) == [coll EXCEPT ![i] = "ACCEPTED"]

AcceptInvitation(i, freelancerId) ==
    /\ IF /\ InvitationResponseValid(i, freelancerId)
          /\ i[1] \in DOMAIN gigs
          /\ gigs[i[1]].status = "OPEN"
       THEN /\ invitations' = AcceptInvitationUpdate(invitations, i)
            /\ last' = Response("accept-invitation", i[1], i[2], TRUE)
       ELSE /\ invitations' = invitations
            /\ last' = Response("accept-invitation", i[1], i[2], FALSE)
    /\ UNCHANGED <<gigs, gigsTopic, applications, xp, profiles, acc, replayVars, requestVars,
                   contractVars>>

RejectInvitation(i, freelancerId) ==
    /\ IF InvitationResponseValid(i, freelancerId)
       THEN /\ invitations' = [invitations EXCEPT ![i] = "REJECTED"]
            /\ last' = Response("reject-invitation", i[1], i[2], TRUE)
       ELSE /\ invitations' = invitations
            /\ last' = Response("reject-invitation", i[1], i[2], FALSE)
    /\ UNCHANGED <<gigs, gigsTopic, applications, xp, profiles, acc, replayVars, requestVars,
                   contractVars>>

\* ---------------------------------------------------------------------------
\* Specification of the acceptance sub-protocol and assignment
\* ---------------------------------------------------------------------------
Pairs == Gigs \X Freelancers

\* each gig id is recorded once, with either visibility; only freelancers
\* register a profile
NextApp ==
    \/ \E g \in Gigs, v \in {"PUBLIC", "PRIVATE"} :
          g \notin DOMAIN gigs /\ RecordCreation(GigCreateMsg(g, GigOwner(g), v))
    \/ \E f \in Freelancers :
          f \notin DOMAIN profiles /\ RecordProfileCreation(ProfileCreateMsg(f, "ann"))
    \/ \E a \in Pairs : Apply(a[1], a[2])
    \/ \E a \in Pairs, c \in Clients : AcceptApplication(a, c)
    \/ \E a \in Pairs, c \in Clients : RejectApplication(a, c)
    \/ \E a \in Pairs, c \in Clients : SendInvitation(a[1], a[2], c)
    \/ \E i \in Pairs, f \in Freelancers : AcceptInvitation(i, f)
    \/ \E i \in Pairs, f \in Freelancers : RejectInvitation(i, f)
    \/ \E g \in Gigs, c \in Clients, f \in Freelancers :
          PrepareAssignment(g, c, f, BytecodeChunks)
    \/ \E g \in Gigs, f \in Freelancers : RecordAssignment(g, f)

SpecApp == Init /\ [][NextApp]_vars

\* ---------------------------------------------------------------------------
\* POST /applications/:applicationId/accept as the sequence of its store
\* operations, so that two requests can interleave
\* ---------------------------------------------------------------------------
\* Application.findById(applicationId)
AcceptFindById(r, a, c) ==
    /\ acc[r].pc = "idle"
    /\ IF a \in DOMAIN applications
       THEN /\ acc' = [acc EXCEPT ![r] = [pc |-> "found", app |-> a,
                                          loaded |-> applications[a], client |-> c]]
            /\ last' = last
       ELSE /\ acc' = [acc EXCEPT ![r] = [pc |-> "failed", app |-> a,
                                          loaded |-> Null, client |-> c]]
            /\ last' = Response("accept-application", a[1], a[2], FALSE)
    /\ UNCHANGED <<gigs, gigsTopic, applications, invitations, xp, profiles, replayVars, requestVars,
                   contractVars>>

\* Gig.findOne({ gigRefId: application.gigRefId }) and the owner and status checks
AcceptFindGig(r) ==
    /\ acc[r].pc = "found"
    /\ LET a == acc[r].app IN
         IF a[1] \in DOMAIN gigs /\ gigs[a[1]].clientId = acc[r].client
                                 /\ gigs[a[1]].status = "OPEN"
         THEN /\ acc' = [acc EXCEPT ![r].pc = "checked"]
              /\ last' = last
         ELSE /\ acc' = [acc EXCEPT ![r].pc = "failed"]
              /\ last' = Response("accept-application", a[1], a[2], FALSE)
    /\ UNCHANGED <<gigs, gigsTopic, applications, invitations, xp, profiles, replayVars, requestVars,
                   contractVars>>

\* application.save(): writes status only when it differs from the loaded document
AcceptSave(r) ==
    /\ acc[r].pc = "checked"
    /\ applications' = IF acc[r].loaded # "ACCEPTED"
                       THEN SaveAccepted(applications, acc[r].app)
                       ELSE applications
    /\ acc' = [acc EXCEPT ![r].pc = "saved"]
    /\ UNCHANGED <<gigs, gigsTopic, invitations, xp, profiles, last, replayVars, requestVars,
                   contractVars>>

\* Application.updateMany(...) and the 200 response
AcceptUpdateMany(r) ==
    /\ acc[r].pc = "saved"
    /\ applications' = RejectPendingSiblings(applications, acc[r].app)
    /\ acc' = [acc EXCEPT ![r].pc = "done"]
    /\ last' = Response("accept-application", acc[r].app[1], acc[r].app[2], TRUE)
    /\ UNCHANGED <<gigs, gigsTopic, invitations, xp, profiles, replayVars, requestVars, contractVars>>

\* the slot is free for the next request
AcceptFinish(r) ==
    /\ acc[r].pc \in {"done", "failed"}
    /\ acc' = [acc EXCEPT ![r] = IdleRequest]
    /\ UNCHANGED <<gigs, gigsTopic, applications, invitations, xp, profiles, last, replayVars, requestVars,
                   contractVars>>

\* PUBLIC gigs, successful applications, and two slots of accept requests
NextAccept ==
    \/ \E g \in Gigs :
          g \notin DOMAIN gigs /\ RecordCreation(GigCreateMsg(g, GigOwner(g), "PUBLIC"))
    \/ \E a \in Pairs : ApplyValid(a[1], a[2]) /\ Apply(a[1], a[2])
    \/ \E r \in Requests, a \in Pairs, c \in Clients : AcceptFindById(r, a, c)
    \/ \E r \in Requests : AcceptFindGig(r)
    \/ \E r \in Requests : AcceptSave(r)
    \/ \E r \in Requests : AcceptUpdateMany(r)
    \/ \E r \in Requests : AcceptFinish(r)

SpecAccept == Init /\ [][NextAccept]_vars

\* ---------------------------------------------------------------------------
\* record-assignment of the index.js revision as the steps of its resolver
\* loop (utils/solidityCompiler.js getEntityIdFromTransaction) and its commit
\* ---------------------------------------------------------------------------
\* what the indexer answers to one poll: 404, a record without entity_id,
\* another failure, or a record carrying the contract id
IndexerAnswers == {"404", "no-entity", "error"} \cup ContractIds

\* a loop test that admits one more round
LoopOneMore(i) == i < maxAttempts + 1

\* for (let i = 0; i < 5; i++)
LoopContinues(i) == i < maxAttempts

\* the handler has validated the body and calls getEntityIdFromTransaction
RecordAssignmentCall(g, f) ==
    /\ res.pc \in {"idle", "responded"}
    /\ res' = [IdleResolve EXCEPT !.pc = IF LoopContinues(0) THEN "poll" ELSE "thrown",
                                  !.gig = g, !.who = f]
    /\ UNCHANGED <<gigs, gigsTopic, applications, invitations, xp, profiles, last, acc,
                   replayVars, inserted, ins,
                   contractVars>>

\* a poll that waits and retries after every failure
PollRetryingAll(answer) ==
    /\ res.pc = "poll"
    /\ res' = IF answer \in ContractIds
              THEN [res EXCEPT !.pc = "returned", !.polls = @ + 1,
                               !.only404 = FALSE, !.result = answer]
              ELSE [res EXCEPT !.pc = "wait", !.polls = @ + 1,
                               !.only404 = (@ /\ answer = "404")]
    /\ UNCHANGED <<gigs, gigsTopic, applications, invitations, xp, profiles, last, acc,
                   replayVars, inserted, ins, contractVars>>

\* await axios.get(url): the entity id is returned, a 404 leads to the wait,
\* anything else is rethrown
Poll(answer) ==
    /\ res.pc = "poll"
    /\ res' = IF answer \in ContractIds
              THEN [res EXCEPT !.pc = "returned", !.polls = @ + 1,
                               !.only404 = FALSE, !.result = answer]
              ELSE IF answer = "404"
              THEN [res EXCEPT !.pc = "wait", !.polls = @ + 1]
              ELSE [res EXCEPT !.pc = "thrown", !.polls = @ + 1, !.only404 = FALSE]
    /\ UNCHANGED <<gigs, gigsTopic, applications, invitations, xp, profiles, last, acc,
                   replayVars, inserted, ins,
                   contractVars>>

\* the 2000 ms timer fires, i++, and the loop test is taken; after the last
\* round the function throws "Could not find a successful transaction record"
Wait ==
    /\ res.pc = "wait"
    /\ res' = [res EXCEPT !.waits = @ + 1, !.i = @ + 1,
                          !.pc = IF LoopContinues(res.i + 1) THEN "poll" ELSE "thrown"]
    /\ UNCHANGED <<gigs, gigsTopic, applications, invitations, xp, profiles, last, acc,
                   replayVars, inserted, ins,
                   contractVars>>

\* a handler that writes status and worker whatever the resolver did
CommitBeforeResolving(gig, r) ==
    [gig EXCEPT !.status = "IN_PROGRESS", !.assignedFreelancerId = r.who,
                !.escrowContractId = r.result]

\* lines 862-869: the writes run only when the awaited resolver returned
CommitAssignment(gig, r) ==
    IF r.pc = "returned"
    THEN ResolvedAssignmentUpdate(gig, r.who, r.result, GigUpdateMsg(r.gig, gig.clientId, r.who))
    ELSE gig

\* the rest of the handler: the writes, the e-mail to a worker who has a
\* profile, and the response (500 when the resolver or the gig lookup threw,
\* or the e-mail rejected)
RecordAssignmentRespond(emailOk) ==
    /\ res.pc \in {"returned", "thrown"}
    /\ gigs' = IF res.gig \in DOMAIN gigs
               THEN [gigs EXCEPT ![res.gig] = CommitAssignment(gigs[res.gig], res)]
               ELSE gigs
    /\ last' = Response("record-assignment-resolved", res.gig, res.who,
                        /\ res.pc = "returned"
                        /\ res.gig \in DOMAIN gigs
                        /\ (res.who \in DOMAIN profiles => emailOk))
    /\ res' = [res EXCEPT !.pc = "responded"]
    /\ UNCHANGED <<gigsTopic, applications, invitations, xp, profiles, acc,
                   replayVars, inserted, ins,
                   contractVars>>

NextResolve ==
    \/ \E g \in Gigs : g \notin DOMAIN gigs /\ RecordCreation(GigData(g))
    \/ \E f \in Freelancers :
          f \notin DOMAIN profiles /\ RecordProfileCreation(ProfileCreateMsg(f, "ann"))
    \/ \E g \in Gigs, f \in Freelancers : RecordAssignmentCall(g, f)
    \/ \E answer \in IndexerAnswers : Poll(answer)
    \/ Wait
    \/ \E emailOk \in BOOLEAN : RecordAssignmentRespond(emailOk)

SpecResolve == Init /\ [][NextResolve]_vars

\* every poll is answered and every timer fires
SpecResolveLive ==
    /\ Init /\ [][NextResolve]_vars
    /\ WF_vars(\E answer \in IndexerAnswers : Poll(answer))
    /\ WF_vars(Wait)

\* ---------------------------------------------------------------------------
\* Inserts under the compound unique indexes (db/connection.js): apply and
\* review submission as the sequence of their store operations, so that two
\* requests can interleave, and the reward mint.  The collections are kept as
\* the list of their documents' indexed keys; the keyed applications map used
\* above is the view this index justifies.
\* ---------------------------------------------------------------------------
\* the collection holds a document with this indexed key
Stored(coll, key) == \E n \in 1..Len(coll) : coll[n] = key

\* a collection whose index is not unique
CreateUnindexed(coll, key) == [ok |-> TRUE, coll |-> Append(coll, key)]

\* Model.create(doc) on a collection with schema.index({...}, { unique: true }):
\* the insert is refused (E11000) when a document with the key is stored
Create(coll, key) ==
    IF Stored(coll, key)
    THEN [ok |-> FALSE, coll |-> coll]
    ELSE [ok |-> TRUE, coll |-> Append(coll, key)]

\* apply: Gig.findOne and the visibility and status checks
ApplyGigStatus(g) ==
    IF g \notin DOMAIN gigs THEN 404
    ELSE IF gigs[g].visibility # "PUBLIC" THEN 403
    ELSE IF gigs[g].status # "OPEN" THEN 403
    ELSE 200

ApplyFindGig(r, g, f) ==
    /\ ins[r].pc = "idle"
    /\ IF ApplyGigStatus(g) = 200
       THEN /\ ins' = [ins EXCEPT ![r] = [pc |-> "find", coll |-> "applications",
                                          key |-> <<g, f>>, status |-> 0]]
            /\ last' = last
       ELSE /\ ins' = [ins EXCEPT ![r] = [pc |-> "responded", coll |-> "applications",
                                          key |-> <<g, f>>, status |-> ApplyGigStatus(g)]]
            /\ last' = Response("apply", g, f, FALSE)
    /\ UNCHANGED <<gigs, gigsTopic, applications, invitations, xp, profiles, acc,
                   replayVars, res, inserted,
                   contractVars>>

\* a submit handler that skips the completed check
SubmitReviewGigStatusAnyStatus(g, reviewerId) ==
    IF g \notin DOMAIN gigs THEN 404
    ELSE IF reviewerId \notin {gigs[g].clientId, gigs[g].assignedFreelancerId} THEN 403
    ELSE 200

\* submit review: Gig.findOne, the completed check and the participant check
SubmitReviewGigStatus(g, reviewerId) ==
    IF g \notin DOMAIN gigs THEN 404
    ELSE IF gigs[g].status \notin {"COMPLETED", "COMPLETED_BY_ARBITER"} THEN 403
    ELSE IF reviewerId \notin {gigs[g].clientId, gigs[g].assignedFreelancerId} THEN 403
    ELSE 200

SubmitReviewFindGig(r, g, reviewerId) ==
    /\ ins[r].pc = "idle"
    /\ IF SubmitReviewGigStatus(g, reviewerId) = 200
       THEN /\ ins' = [ins EXCEPT ![r] = [pc |-> "find", coll |-> "reviews",
                                          key |-> <<g, reviewerId>>, status |-> 0]]
            /\ last' = last
       ELSE /\ ins' = [ins EXCEPT ![r] = [pc |-> "responded", coll |-> "reviews",
                                          key |-> <<g, reviewerId>>,
                                          status |-> SubmitReviewGigStatus(g, reviewerId)]]
            /\ last' = Response("submit-review", g, reviewerId, FALSE)
    /\ UNCHANGED <<gigs, gigsTopic, applications, invitations, xp, profiles, acc,
                   replayVars, res, inserted,
                   contractVars>>

InsertOp(coll) == IF coll = "applications" THEN "apply" ELSE "submit-review"

\* Application.findOne({ gigRefId, freelancerId }) / Review.findOne({ gigRefId, reviewerId })
FindExisting(r) ==
    /\ ins[r].pc = "find"
    /\ IF Stored(inserted[ins[r].coll], ins[r].key)
       THEN /\ ins' = [ins EXCEPT ![r].pc = "responded", ![r].status = 409]
            /\ last' = Response(InsertOp(ins[r].coll), ins[r].key[1], ins[r].key[2], FALSE)
       ELSE /\ ins' = [ins EXCEPT ![r].pc = "create"]
            /\ last' = last
    /\ UNCHANGED <<gigs, gigsTopic, applications, invitations, xp, profiles, acc,
                   replayVars, res, inserted,
                   contractVars>>

\* Application.create / Review.create and the response: 201, or 500 from the
\* catch when the store refuses the insert
CreateDocument(r) ==
    /\ ins[r].pc = "create"
    /\ LET created == Create(inserted[ins[r].coll], ins[r].key) IN
         /\ inserted' = [inserted EXCEPT ![ins[r].coll] = created.coll]
         /\ ins' = [ins EXCEPT ![r].pc = "responded",
                               ![r].status = IF created.ok THEN 201 ELSE 500]
         /\ last' = Response(InsertOp(ins[r].coll), ins[r].key[1], ins[r].key[2], created.ok)
    /\ UNCHANGED <<gigs, gigsTopic, applications, invitations, xp, profiles, acc,
                   replayVars, res,
                   contractVars>>

\* the slot is free for the next request
InsertFinish(r) ==
    /\ ins[r].pc = "responded"
    /\ ins' = [ins EXCEPT ![r] = IdleInsert]
    /\ UNCHANGED <<gigs, gigsTopic, applications, invitations, xp, profiles, last, acc,
                   replayVars, res, inserted,
                   contractVars>>

\* POST /rewards/mint-and-transfer: no look-up of an existing reward; after
\* the mint and the transfer on the ledger, Reward.create
MintAndTransfer(accountId, rewardId) ==
    /\ LET created == Create(inserted["rewards"], <<accountId, rewardId>>) IN
         /\ inserted' = [inserted EXCEPT !["rewards"] = created.coll]
         /\ last' = Response("mint-and-transfer", Null, accountId, created.ok)
    /\ UNCHANGED <<gigs, gigsTopic, applications, invitations, xp, profiles, acc,
                   replayVars, res, ins,
                   contractVars>>

\* one PUBLIC gig that is applied to, assigned, released and reviewed
NextInsert ==
    \/ "g1" \notin DOMAIN gigs /\ RecordCreation(GigCreateMsg("g1", GigOwner("g1"), "PUBLIC"))
    \/ \E f \in Freelancers :
          /\ "g1" \in DOMAIN gigs /\ gigs["g1"].status = "OPEN"
          /\ RecordAssignment("g1", f)
    \/ /\ "g1" \in DOMAIN gigs /\ gigs["g1"].status = "IN_PROGRESS"
       /\ RecordReleaseEscrow("g1", "none")
    \/ \E r \in Requests, f \in Freelancers : ApplyFindGig(r, "g1", f)
    \/ \E r \in Requests, a \in Clients \cup Freelancers : SubmitReviewFindGig(r, "g1", a)
    \/ \E r \in Requests : FindExisting(r)
    \/ \E r \in Requests : CreateDocument(r)
    \/ \E r \in Requests : InsertFinish(r)
    \/ \E a \in Freelancers, rewardId \in RewardIds : MintAndTransfer(a, rewardId)

SpecInsert == Init /\ [][NextInsert]_vars

\* ---------------------------------------------------------------------------
\* Review submission (routes/reviews.js), the handler as one step on the
\* Review collection with its documents in full
\* ---------------------------------------------------------------------------
CompletedStatuses == {"COMPLETED", "COMPLETED_BY_ARBITER"}

\* if (reviewerId === gig.clientId) ... else if (reviewerId === gig.assignedFreelancerId) ...
ReviewTypeOf(gig, reviewerId) ==
    IF reviewerId = gig.clientId THEN "CLIENT_TO_FREELANCER"
    ELSE IF reviewerId = gig.assignedFreelancerId THEN "FREELANCER_TO_CLIENT"
    ELSE Null

RevieweeOf(gig, reviewerId) ==
    IF reviewerId = gig.clientId THEN gig.assignedFreelancerId
    ELSE IF reviewerId = gig.assignedFreelancerId THEN gig.clientId
    ELSE Null

\* the document of Review.create: revieweeId: revieweeId || reviewerId
ReviewDoc(g, gig, reviewerId) ==
    [gigRefId |-> g, reviewerId |-> reviewerId,
     revieweeId |-> IF RevieweeOf(gig, reviewerId) = Null
                    THEN reviewerId ELSE RevieweeOf(gig, reviewerId),
     reviewType |-> ReviewTypeOf(gig, reviewerId)]

\* Review.findOne({ gigRefId, reviewerId })
ExistingReview(g, reviewerId) ==
    \E n \in 1..Len(reviews) : reviews[n].gigRefId = g /\ reviews[n].reviewerId = reviewerId

\* the response status of POST /reviews/submit for a well-formed body
SubmitReviewStatus(g, reviewerId) ==
    IF SubmitReviewGigStatus(g, reviewerId) # 200 THEN SubmitReviewGigStatus(g, reviewerId)
    ELSE IF ExistingReview(g, reviewerId) THEN 409
    ELSE 201

SubmitReview(g, reviewerId) ==
    /\ reviews' = IF SubmitReviewStatus(g, reviewerId) = 201
                  THEN Append(reviews, ReviewDoc(g, gigs[g], reviewerId))
                  ELSE reviews
    /\ last' = Response("submit-review", g, reviewerId, SubmitReviewStatus(g, reviewerId) = 201)
    /\ UNCHANGED <<gigs, gigsTopic, applications, invitations, xp, profiles, acc,
                   replayVars, requestVars, escrow, rel>>

\* gigs that are created, assigned while OPEN, released and reviewed
NextReview ==
    \/ \E g \in Gigs : g \notin DOMAIN gigs /\ RecordCreation(GigCreateMsg(g, GigOwner(g), "PUBLIC"))
    \/ \E g \in Gigs, f \in Freelancers :
          /\ g \in DOMAIN gigs /\ gigs[g].status = "OPEN"
          /\ RecordAssignment(g, f)
    \/ \E g \in Gigs : RecordReleaseEscrow(g, "none")
    \/ \E g \in Gigs, a \in Clients \cup Freelancers : SubmitReview(g, a)

SpecReview == Init /\ [][NextReview]_vars

\* ---------------------------------------------------------------------------
\* The other prepare handlers of routes/gigs.js
\* ---------------------------------------------------------------------------
\* POST /gigs/prepare-creation: 400 on a missing field (c = Null: no clientId),
\* else gigData under a fresh gigRefId g and the unsigned submit transaction
PrepareCreation(g, c, v) ==
    /\ last' = Response("prepare-creation", g, c, c # Null)
    /\ UNCHANGED <<gigs, gigsTopic, applications, invitations, xp, profiles, acc,
                   replayVars, requestVars, contractVars>>

\* ContractId.fromString(gig.escrowContractId) returns: the gig is found and
\* carries a contract id; otherwise it throws and the catch answers 500
EscrowPayloadBuilt(g) == g \in DOMAIN gigs /\ gigs[g].escrowContractId # Null

\* POST /gigs/:gigRefId/prepare-lock-escrow; who = the clientId of the body
PrepareLockEscrow(g, c) ==
    /\ last' = Response("prepare-lock-escrow", g, c, EscrowPayloadBuilt(g))
    /\ UNCHANGED <<gigs, gigsTopic, applications, invitations, xp, profiles, acc,
                   replayVars, requestVars, contractVars>>

\* POST /gigs/:gigRefId/prepare-release-escrow
PrepareReleaseEscrow(g, c) ==
    /\ last' = Response("prepare-release-escrow", g, c, EscrowPayloadBuilt(g))
    /\ UNCHANGED <<gigs, gigsTopic, applications, invitations, xp, profiles, acc,
                   replayVars, requestVars, contractVars>>

\* the prepare handlers next to the record handlers that move a gig through
\* its statuses; record-assignment also in the revision that links a contract
NextPrepare ==
    \/ \E g \in Gigs : g \notin DOMAIN gigs /\ RecordCreation(GigData(g))
    \/ \E g \in Gigs, c \in Clients \cup {Null}, v \in {"PUBLIC", "PRIVATE"} :
          PrepareCreation(g, c, v)
    \/ \E g \in Gigs, c \in Clients, f \in Freelancers, executed \in 0..BytecodeChunks :
          PrepareAssignment(g, c, f, executed)
    \/ \E g \in Gigs, f \in Freelancers : RecordAssignment(g, f)
    \/ \E g \in Gigs, f \in Freelancers, k \in ContractIds : RecordAssignmentResolved(g, f, k)
    \/ \E g \in Gigs, c \in Clients : PrepareLockEscrow(g, c)
    \/ \E g \in Gigs, c \in Clients : PrepareReleaseEscrow(g, c)
    \/ \E g \in Gigs : RecordReleaseEscrow(g, "none")

SpecPrepare == Init /\ [][NextPrepare]_vars

\* ---------------------------------------------------------------------------
\* The escrow contract (Escrow.sol, contract HireChainEscrow).  A function is
\* an operator from the storage, msg.sender and its inputs to the outcome of
\* the transaction: the new storage, or a revert that leaves the storage.
\* `success` is the result of the HBAR transfer by .call{value: amount}.
\* ---------------------------------------------------------------------------
Reverted(e) == [ok |-> FALSE, escrow |-> e]

Executed(e) == [ok |-> TRUE, escrow |-> e]

\* constructor()
constructor(sender) ==
    [arbiter |-> sender, client |-> Null, freelancer |-> Null, amount |-> 0,
     currentState |-> "Created", balance |-> 0, paid |-> << >>]

\* function initEscrow(address payable _freelancer)
initEscrow(e, sender, _freelancer) ==
    IF e.currentState # "Created" THEN Reverted(e)
    ELSE Executed([e EXCEPT !.client = sender, !.freelancer = _freelancer,
                            !.currentState = "Initialized"])

\* a lock that any account may send
lockFundsAnySender(e, sender, value) ==
    IF e.currentState # "Initialized" THEN Reverted(e)
    ELSE IF ~(value > 0) THEN Reverted(e)
    ELSE Executed([e EXCEPT !.amount = value, !.currentState = "Locked",
                            !.balance = @ + value])

\* function lockFunds() payable: msg.value is credited to the contract
lockFunds(e, sender, value) ==
    IF e.currentState # "Initialized" THEN Reverted(e)
    ELSE IF sender # e.client THEN Reverted(e)
    ELSE IF ~(value > 0) THEN Reverted(e)
    ELSE Executed([e EXCEPT !.amount = value, !.currentState = "Locked",
                            !.balance = @ + value])

\* recipient.call{value: amount}("") that succeeded
Transfer(e, recipient) ==
    [e EXCEPT !.balance = @ - e.amount, !.paid = Append(@, <<recipient, e.amount>>)]

\* a release that only the client may call
releaseFundsClientOnly(e, sender, success) ==
    IF e.currentState # "Locked" THEN Reverted(e)
    ELSE IF sender # e.client THEN Reverted(e)
    ELSE IF ~success THEN Reverted(e)
    ELSE Executed(Transfer([e EXCEPT !.currentState = "Released"], e.freelancer))

\* a release that pays without leaving the Locked state
releaseFundsStayingLocked(e, sender, success) ==
    IF e.currentState # "Locked" THEN Reverted(e)
    ELSE IF ~(sender = e.client \/ sender = e.arbiter) THEN Reverted(e)
    ELSE IF ~success THEN Reverted(e)
    ELSE Executed(Transfer(e, e.freelancer))

\* function releaseFunds()
releaseFunds(e, sender, success) ==
    IF e.currentState # "Locked" THEN Reverted(e)
    ELSE IF ~(sender = e.client \/ sender = e.arbiter) THEN Reverted(e)
    ELSE IF ~success THEN Reverted(e)
    ELSE Executed(Transfer([e EXCEPT !.currentState = "Released"], e.freelancer))

\* a cancel without the check of the state
cancelEscrowAnyState(e, sender, success) ==
    IF ~(sender = e.client \/ sender = e.freelancer \/ sender = e.arbiter) THEN Reverted(e)
    ELSE IF ~success THEN Reverted(e)
    ELSE Executed(Transfer([e EXCEPT !.currentState = "Cancelled"], e.client))

\* function cancelEscrow()
cancelEscrow(e, sender, success) ==
    IF e.currentState # "Locked" THEN Reverted(e)
    ELSE IF ~(sender = e.client \/ sender = e.freelancer \/ sender = e.arbiter) THEN Reverted(e)
    ELSE IF ~success THEN Reverted(e)
    ELSE Executed(Transfer([e EXCEPT !.currentState = "Cancelled"], e.client))

\* the code of the transfer's recipient calls fn back into the contract, as
\* msg.sender, before it returns; a reverting inner call leaves the storage
Reenter(e, recipient, fn) ==
    IF fn = "releaseFunds" THEN releaseFunds(e, recipient, TRUE).escrow
    ELSE cancelEscrow(e, recipient, TRUE).escrow

\* releaseFunds whose payment runs such a recipient: the inner call sees the
\* storage after the effects of the outer one
releaseFundsReentered(e, sender, fn) ==
    IF releaseFunds(e, sender, TRUE).ok
    THEN Executed(Reenter(releaseFunds(e, sender, TRUE).escrow, e.freelancer, fn))
    ELSE Reverted(e)

cancelEscrowReentered(e, sender, fn) ==
    IF cancelEscrow(e, sender, TRUE).ok
    THEN Executed(Reenter(cancelEscrow(e, sender, TRUE).escrow, e.client, fn))
    ELSE Reverted(e)

\* the contract-create transaction, paid and signed by sender
Deploy(sender) ==
    /\ escrow = NoContract
    /\ escrow' = constructor(sender)
    /\ last' = Response("constructor", Null, sender, TRUE)
    /\ UNCHANGED <<gigs, gigsTopic, applications, invitations, xp, profiles, acc,
                   replayVars, requestVars, reviews, rel>>

\* a contract-execute transaction on the deployed contract, with its outcome
ContractCall(fn, sender, outcome) ==
    /\ escrow # NoContract
    /\ escrow' = outcome.escrow
    /\ last' = Response(fn, Null, sender, outcome.ok)
    /\ UNCHANGED <<gigs, gigsTopic, applications, invitations, xp, profiles, acc,
                   replayVars, requestVars, reviews, rel>>

InitEscrowCall(sender, _freelancer) ==
    ContractCall("initEscrow", sender, initEscrow(escrow, sender, _freelancer))

LockFundsCall(sender, value) ==
    ContractCall("lockFunds", sender, lockFunds(escrow, sender, value))

ReleaseFundsCall(sender, success) ==
    ContractCall("releaseFunds", sender, releaseFunds(escrow, sender, success))

CancelEscrowCall(sender, success) ==
    ContractCall("cancelEscrow", sender, cancelEscrow(escrow, sender, success))

ReleaseFundsReenteredCall(sender, fn) ==
    ContractCall("releaseFunds", sender, releaseFundsReentered(escrow, sender, fn))

CancelEscrowReenteredCall(sender, fn) ==
    ContractCall("cancelEscrow", sender, cancelEscrowReentered(escrow, sender, fn))

\* one contract, deployed and called by any account
NextEscrow ==
    \/ \E sender \in Accounts : Deploy(sender)
    \/ \E sender \in Accounts, _freelancer \in Accounts : InitEscrowCall(sender, _freelancer)
    \/ \E sender \in Accounts, value \in 0..MaxAmount : LockFundsCall(sender, value)
    \/ \E sender \in Accounts, success \in BOOLEAN : ReleaseFundsCall(sender, success)
    \/ \E sender \in Accounts, success \in BOOLEAN : CancelEscrowCall(sender, success)
    \/ \E sender \in Accounts, fn \in {"releaseFunds", "cancelEscrow"} :
          ReleaseFundsReenteredCall(sender, fn)
    \/ \E sender \in Accounts, fn \in {"releaseFunds", "cancelEscrow"} :
          CancelEscrowReenteredCall(sender, fn)

SpecEscrow == Init /\ [][NextEscrow]_vars

\* ---------------------------------------------------------------------------
\* The arbiter endpoints (routes/arbiter.js) and the deployment of the
\* contract through the prepare-assignment flow
\* ---------------------------------------------------------------------------
\* the outcome of a contract-execute transaction sent with platformClient:
\* msg.sender is the operator account; a missing contractId is answered 400
\* before any transaction, a contract that does not exist fails the receipt
PlatformCall(contractId, outcome) ==
    IF contractId = Null \/ escrow = NoContract THEN Reverted(escrow) ELSE outcome

\* POST /arbister/release: 200 when the receipt is a success, 500 from the
\* catch otherwise; no collection of the store is written
ArbiterRelease(contractId, success) ==
    LET outcome == PlatformCall(contractId, releaseFunds(escrow, myAccountId, success)) IN
      /\ escrow' = outcome.escrow
      /\ last' = Response("arbiter-release", Null, myAccountId, outcome.ok)
      /\ UNCHANGED <<gigs, gigsTopic, applications, invitations, xp, profiles, acc,
                     replayVars, requestVars, reviews, rel>>

\* POST /arbiter/cancel
ArbiterCancel(contractId, success) ==
    LET outcome == PlatformCall(contractId, cancelEscrow(escrow, myAccountId, success)) IN
      /\ escrow' = outcome.escrow
      /\ last' = Response("arbiter-cancel", Null, myAccountId, outcome.ok)
      /\ UNCHANGED <<gigs, gigsTopic, applications, invitations, xp, profiles, acc,
                     replayVars, requestVars, reviews, rel>>

\* the client's wallet signs and submits encodedContractTx of the
\* prepare-assignment response: ContractCreateTransaction with
\* TransactionId.generate(clientId), clientId being the gig's owner (403 otherwise)
DeployPrepared ==
    /\ last.op = "prepare-assignment" /\ last.ok
    /\ Deploy(gigs[last.gig].clientId)

\* gig g1 with its contract deployed by the client's wallet from the prepared
\* transaction, then initialized, locked, and released or cancelled by the
\* parties or through the arbiter endpoints
NextDeploy ==
    \/ "g1" \notin DOMAIN gigs /\ RecordCreation(GigData("g1"))
    \/ \E c \in Clients, f \in Freelancers : PrepareAssignment("g1", c, f, BytecodeChunks)
    \/ DeployPrepared
    \/ \E f \in Freelancers :
          /\ "g1" \in DOMAIN gigs /\ gigs["g1"].status = "OPEN"
          /\ RecordAssignment("g1", f)
    \/ \E f \in Freelancers, k \in ContractIds :
          escrow # NoContract /\ RecordAssignmentResolved("g1", f, k)
    \/ \E sender \in Accounts, _freelancer \in Freelancers : InitEscrowCall(sender, _freelancer)
    \/ \E sender \in Accounts, value \in 0..MaxAmount : LockFundsCall(sender, value)
    \/ \E sender \in Accounts : ReleaseFundsCall(sender, TRUE)
    \/ \E sender \in Accounts : CancelEscrowCall(sender, TRUE)
    \/ \E k \in ContractIds \cup {Null}, success \in BOOLEAN : ArbiterRelease(k, success)
    \/ \E k \in ContractIds \cup {Null}, success \in BOOLEAN : ArbiterCancel(k, success)

SpecDeploy == Init /\ [][NextDeploy]_vars

\* gig g1 linked to a contract that any account, the platform included, has
\* deployed; the contract is initialized, locked, and released or cancelled
\* through the arbiter endpoints
NextArbiter ==
    \/ "g1" \notin DOMAIN gigs /\ RecordCreation(GigData("g1"))
    \/ \E sender \in Accounts : Deploy(sender)
    \/ \E f \in Freelancers, k \in ContractIds :
          escrow # NoContract /\ RecordAssignmentResolved("g1", f, k)
    \/ \E sender \in Accounts, _freelancer \in Freelancers : InitEscrowCall(sender, _freelancer)
    \/ \E sender \in Accounts, value \in 0..MaxAmount : LockFundsCall(sender, value)
    \/ \E k \in ContractIds \cup {Null}, success \in BOOLEAN : ArbiterRelease(k, success)
    \/ \E k \in ContractIds \cup {Null}, success \in BOOLEAN : ArbiterCancel(k, success)

SpecArbiter == Init /\ [][NextArbiter]_vars

\* ---------------------------------------------------------------------------
\* Messages of a gig (routes/messages.js)
\* ---------------------------------------------------------------------------
\* Message.find({ gigRefId }); the requester is no part of the query
GigMessages(g, requester) == SelectSeq(messages, LAMBDA m : m.gigRefId = g)

\* GET /gigs/:gigRefId/messages, sent by requester: 404 without the gig, else
\* 200 with the gig's messages
GetGigMessages(g, requester) ==
    /\ last' = IF g \notin DOMAIN gigs
               THEN Response("get-messages", g, requester, FALSE)
               ELSE [Response("get-messages", g, requester, TRUE)
                        EXCEPT !.body = GigMessages(g, requester)]
    /\ UNCHANGED <<gigs, gigsTopic, applications, invitations, xp, profiles, acc,
                   replayVars, requestVars, contractVars>>

\* POST /gigs/:gigRefId/message: 404 without the gig, else the message is saved
PostGigMessage(g, senderId) ==
    /\ Len(messages) < MaxMessages
    /\ IF g \notin DOMAIN gigs
       THEN /\ messages' = messages
            /\ last' = Response("post-message", g, senderId, FALSE)
       ELSE /\ messages' = Append(messages, [gigRefId |-> g, senderId |-> senderId])
            /\ last' = Response("post-message", g, senderId, TRUE)
    /\ UNCHANGED <<gigs, gigsTopic, applications, invitations, xp, profiles, acc,
                   profilesTopic, messagesTopic, requestVars, contractVars>>

\* gigs that are created and assigned, and whose messages are posted and read
NextMessages ==
    \/ \E g \in Gigs : g \notin DOMAIN gigs /\ RecordCreation(GigData(g))
    \/ \E g \in Gigs, f \in Freelancers :
          /\ g \in DOMAIN gigs /\ gigs[g].status = "OPEN"
          /\ RecordAssignment(g, f)
    \/ \E g \in Gigs, senderId \in Clients \cup Freelancers : PostGigMessage(g, senderId)
    \/ \E g \in Gigs, requester \in Clients \cup Freelancers : GetGigMessages(g, requester)

SpecMessages == Init /\ [][NextMessages]_vars

\* ---------------------------------------------------------------------------
\* Profiles: recorded by the handler and replayed from the profile channel
\* ---------------------------------------------------------------------------
PortfolioUrls == {Absent, "url"}

ProfileEventsWithUrl ==
    {[ProfileCreateMsg("f1", n) EXCEPT !.portfolioUrl = u] : n \in Names, u \in PortfolioUrls}

NextProfiles ==
    \/ \E m \in ProfileEventsWithUrl : SubmitToProfilesTopic(m)
    \/ \E m \in ProfileEventsWithUrl : RecordProfileCreation(m)
    \/ \E okP \in 0..MaxLog : SyncFromMirrorNode(1, okP, 1)

SpecProfiles == Init /\ [][NextProfiles]_vars

\* ---------------------------------------------------------------------------
\* Concurrent record-release-escrow requests (routes/gigs.js 174-199): every
\* await of the handler is a point at which another request may run.  The XP
\* write is one findOneAndUpdate with $inc and upsert on a collection whose
\* userAccountId carries a unique index (db/connection.js 205-219): the server
\* increments an existing document in one step; when no document matches it
\* inserts one, and when a concurrent insert has taken the key meanwhile the
\* duplicate-key conflict makes the server run the operation again as an
\* update of the document that now exists.
\* ---------------------------------------------------------------------------
\* an insert that replaces whatever document holds the key
InsertOverwriting(coll, a, n) == Upsert(coll, a, n)

\* the insert step of the upsert: insert, or on a duplicate key increment
InsertOrRetry(coll, a, n) ==
    IF a \in DOMAIN coll THEN IncXp(coll, a, n) ELSE Upsert(coll, a, n)

\* positions of a request at which its XP operation has been applied
Awarded == {"profile", "responded"}

\* const gig = await Gig.findOne({ gigRefId }): the request arrives and loads
\* the gig; releases in flight are for distinct gigs
ReleaseFindGig(r, g) ==
    /\ rel[r].pc = "idle"
    /\ \A q \in Requests : rel[q].gig # g
    /\ rel' = [rel EXCEPT ![r] =
                  [pc |-> "update", gig |-> g,
                   freelancerId |-> IF g \in DOMAIN gigs
                                    THEN gigs[g].assignedFreelancerId ELSE Null,
                   found |-> g \in DOMAIN gigs, upsert |-> "none"]]
    /\ UNCHANGED <<gigs, gigsTopic, applications, invitations, xp, profiles, last, acc,
                   replayVars, requestVars, reviews, escrow>>

\* await Gig.findOneAndUpdate({ gigRefId }, { status: 'COMPLETED' }), then
\* gig.assignedFreelancerId of the document loaded before: a missing gig
\* throws and the handler answers 500; an unassigned gig skips the XP write
ReleaseUpdateStatus(r) ==
    /\ rel[r].pc = "update"
    /\ gigs' = IF rel[r].gig \in DOMAIN gigs
               THEN [gigs EXCEPT ![rel[r].gig] = ReleaseUpdate(@)] ELSE gigs
    /\ rel' = [rel EXCEPT ![r].pc = IF ~rel[r].found THEN "failed"
                                    ELSE IF rel[r].freelancerId = Null THEN "responded"
                                    ELSE "xp"]
    /\ last' = IF ~rel[r].found \/ rel[r].freelancerId = Null
               THEN Response("record-release-escrow", rel[r].gig, Null, rel[r].found)
               ELSE last
    /\ UNCHANGED <<gigsTopic, applications, invitations, xp, profiles, acc,
                   replayVars, requestVars, reviews, escrow>>

\* XP.findOneAndUpdate, the server's match: an existing document is
\* incremented in this step, otherwise the operation goes on to insert
ReleaseXpFind(r) ==
    /\ rel[r].pc = "xp"
    /\ IF rel[r].freelancerId \in DOMAIN xp
       THEN /\ xp' = IncXp(xp, rel[r].freelancerId, xpToAward)
            /\ rel' = [rel EXCEPT ![r].pc = "profile", ![r].upsert = "updated"]
       ELSE /\ xp' = xp
            /\ rel' = [rel EXCEPT ![r].pc = "xp-insert"]
    /\ UNCHANGED <<gigs, gigsTopic, applications, invitations, profiles, last, acc,
                   replayVars, requestVars, reviews, escrow>>

\* XP.findOneAndUpdate, the server's insert on no match
ReleaseXpInsert(r) ==
    /\ rel[r].pc = "xp-insert"
    /\ xp' = InsertOrRetry(xp, rel[r].freelancerId, xpToAward)
    /\ rel' = [rel EXCEPT ![r].pc = "profile",
                          ![r].upsert = IF rel[r].freelancerId \in DOMAIN xp
                                        THEN "retried" ELSE "inserted"]
    /\ UNCHANGED <<gigs, gigsTopic, applications, invitations, profiles, last, acc,
                   replayVars, requestVars, reviews, escrow>>

\* await Profile.findOne, await sendEmail when the worker has a profile, and
\* the response: 200, or 500 when the e-mail rejects
ReleaseRespond(r, emailOk) ==
    /\ rel[r].pc = "profile"
    /\ rel' = [rel EXCEPT ![r].pc = "responded"]
    /\ last' = Response("record-release-escrow", rel[r].gig, Null,
                        rel[r].freelancerId \in DOMAIN profiles => emailOk)
    /\ UNCHANGED <<gigs, gigsTopic, applications, invitations, xp, profiles, acc,
                   replayVars, requestVars, reviews, escrow>>

\* Specification of concurrent releases: gigs are recorded and assigned, and
\* one release request per slot runs step by step
NextConcurrentRelease ==
    \/ \E g \in Gigs : g \notin DOMAIN gigs /\ RecordCreation(GigData(g))
    \/ \E g \in Gigs, f \in Freelancers :
          g \in DOMAIN gigs /\ gigs[g].status = "OPEN" /\ RecordAssignment(g, f)
    \/ \E r \in Requests, g \in Gigs : ReleaseFindGig(r, g)
    \/ \E r \in Requests : ReleaseUpdateStatus(r)
    \/ \E r \in Requests : ReleaseXpFind(r)
    \/ \E r \in Requests : ReleaseXpInsert(r)
    \/ \E r \in Requests, emailOk \in BOOLEAN : ReleaseRespond(r, emailOk)

SpecConcurrentRelease == Init /\ [][NextConcurrentRelease]_vars

\* ---------------------------------------------------------------------------
\* Specification of deciding applications: public gigs are recorded,
\* freelancers apply, and owners (or anyone else) accept and reject
\* ---------------------------------------------------------------------------
NextDecide ==
    \/ \E g \in Gigs :
          g \notin DOMAIN gigs /\ RecordCreation(GigCreateMsg(g, GigOwner(g), "PUBLIC"))
    \/ \E a \in Pairs : Apply(a[1], a[2])
    \/ \E a \in Pairs, c \in Clients : AcceptApplication(a, c)
    \/ \E a \in Pairs, c \in Clients : RejectApplication(a, c)

SpecDecide == Init /\ [][NextDecide]_vars

\* ===========================================================================
\* Properties
\* ===========================================================================
AssignmentOps == {"record-assignment", "record-assignment-resolved"}

\* C1: after a successful record-assignment for gig G with worker F, G is
\* IN_PROGRESS, assigned to F, and G.escrowContractId is the resolved contract
\* id (not null).
C1_RecordAssignmentLinksEscrow ==
    (last.op \in AssignmentOps /\ last.ok) =>
        /\ gigs[last.gig].status = "IN_PROGRESS"
        /\ gigs[last.gig].assignedFreelancerId = last.who
        /\ gigs[last.gig].escrowContractId \in ContractIds

\* C2: in every reachable state each stored gig has assignedFreelancerId and
\* escrowContractId both null if and only if its status is OPEN.
C2_UnassignedIffOpen ==
    \A g \in DOMAIN gigs :
        (gigs[g].assignedFreelancerId = Null /\ gigs[g].escrowContractId = Null)
            <=> gigs[g].status = "OPEN"

\* the gig channel holds a message carrying contract id k
ChannelCarries(k) == \E n \in 1..Len(gigsTopic) : gigsTopic[n].escrowContractId = k

\* C3: a replay never sets back to null an escrowContractId written by a
\* record-assignment when no message of the gig channel carries that id.
C3_ReplayKeepsEscrowLink ==
    [][last'.op = "replay" =>
          \A g \in DOMAIN gigs :
              (gigs[g].escrowContractId # Null /\ ~ChannelCarries(gigs[g].escrowContractId))
                  => gigs'[g].escrowContractId = gigs[g].escrowContractId]_vars

\* C4: when two accept requests for two different PENDING applications of the
\* same OPEN gig interleave, they do not both leave their application ACCEPTED.
C4_ConcurrentAcceptExclusive ==
    ( /\ acc["r1"].pc = "done" /\ acc["r2"].pc = "done"
      /\ acc["r1"].app # acc["r2"].app
      /\ acc["r1"].app[1] = acc["r2"].app[1]
      /\ acc["r1"].loaded = "PENDING" /\ acc["r2"].loaded = "PENDING" )
    => ~( /\ applications[acc["r1"].app] = "ACCEPTED"
          /\ applications[acc["r2"].app] = "ACCEPTED" )

AcceptedOf(g) == {k \in DOMAIN applications : k[1] = g /\ applications[k] = "ACCEPTED"}

\* C5: in every state reachable by apply, accept and reject requests, every
\* gig has at most one ACCEPTED application.
C5_AtMostOneAccepted == \A g \in Gigs : Cardinality(AcceptedOf(g)) <= 1

\* C6: accepting application A1 of gig G by its owner, while G is OPEN and all
\* of G's applications are PENDING, leaves A1 ACCEPTED, every other application
\* of G REJECTED, and the applications of other gigs unchanged.
C6_AcceptCascadesReject ==
    [][ ( /\ last'.op = "accept-application" /\ last'.ok
          /\ \A k \in DOMAIN applications :
                k[1] = last'.gig => applications[k] = "PENDING" )
        => LET a == <<last'.gig, last'.who>> IN
             /\ DOMAIN applications' = DOMAIN applications
             /\ applications'[a] = "ACCEPTED"
             /\ \A k \in DOMAIN applications :
                   /\ (k[1] = a[1] /\ k # a) => applications'[k] = "REJECTED"
                   /\ k[1] # a[1] => applications'[k] = applications[k] ]_vars

\* C6 witness: an accept has answered 200, the accepted application has a
\* REJECTED sibling, and another gig still holds a PENDING application.
C6_Witness ==
    /\ last.op = "accept-application" /\ last.ok
    /\ <<last.gig, last.who>> \in DOMAIN applications
    /\ applications[<<last.gig, last.who>>] = "ACCEPTED"
    /\ \E k \in DOMAIN applications :
          k[1] = last.gig /\ k[2] # last.who /\ applications[k] = "REJECTED"
    /\ \E k \in DOMAIN applications : k[1] # last.gig /\ applications[k] = "PENDING"

HasAcceptedCounterpart(g, f) ==
    IF gigs[g].visibility = "PUBLIC"
    THEN <<g, f>> \in DOMAIN applications /\ applications[<<g, f>>] = "ACCEPTED"
    ELSE <<g, f>> \in DOMAIN invitations /\ invitations[<<g, f>>] = "ACCEPTED"

\* C8: prepare-assignment followed by record-assignment of worker F to gig G
\* succeeds only if F holds an ACCEPTED application (PUBLIC gig) or an ACCEPTED
\* invitation (PRIVATE gig) for G.
C8_AssignRequiresAccepted ==
    [][ ( /\ last.op = "prepare-assignment" /\ last.ok
          /\ last'.op = "record-assignment" /\ last'.ok
          /\ last'.gig = last.gig /\ last'.who = last.who )
        => HasAcceptedCounterpart(last.gig, last.who) ]_vars

\* C9: record-assignment changes a gig only when it is OPEN and record-release
\* only when it is IN_PROGRESS; in any other status the call is rejected and
\* the gig is unchanged.
C9_RecordCallsFollowStateMachine ==
    [][ LET g == last'.gig IN
          /\ ( /\ last'.op \in AssignmentOps
               /\ g \in DOMAIN gigs /\ gigs[g].status # "OPEN" )
             => (~last'.ok /\ gigs' = gigs)
          /\ ( /\ last'.op = "record-release-escrow"
               /\ g \in DOMAIN gigs /\ gigs[g].status # "IN_PROGRESS" )
             => (~last'.ok /\ gigs' = gigs) ]_vars

\* C10: once a gig's status is terminal, no later operation changes it.
C10_TerminalStatusIsFinal ==
    [][ \A g \in DOMAIN gigs :
          gigs[g].status \in TerminalStatuses => gigs'[g].status = gigs[g].status ]_vars

\* C11: a successful record-release for gig G with assigned worker F sets
\* G.status to COMPLETED and increases F's XP by exactly 100; the XP of every
\* other account is unchanged.
C11_ReleaseCompletesAndAwards ==
    [][ ( /\ last'.op = "record-release-escrow" /\ last'.ok
          /\ last'.gig \in DOMAIN gigs
          /\ gigs[last'.gig].assignedFreelancerId # Null )
        => LET F == gigs[last'.gig].assignedFreelancerId IN
             /\ gigs'[last'.gig].status = "COMPLETED"
             /\ F \in DOMAIN xp'
             /\ xp'[F] = XpOf(F) + 100
             /\ DOMAIN xp' = DOMAIN xp \cup {F}
             /\ \A a \in DOMAIN xp : a # F => xp'[a] = xp[a] ]_vars

\* C11 witness: a release of an assigned gig has answered 200, the worker holds
\* 100 XP, and another account holds XP of its own.
C11_Witness ==
    /\ last.op = "record-release-escrow" /\ last.ok
    /\ gigs[last.gig].status = "COMPLETED"
    /\ gigs[last.gig].assignedFreelancerId \in DOMAIN xp
    /\ xp[gigs[last.gig].assignedFreelancerId] = 100
    /\ \E a \in DOMAIN xp : a # gigs[last.gig].assignedFreelancerId

\* C12: a record-release request that fails after its status write does not
\* leave the gig half-updated: when a failed request has turned G to COMPLETED,
\* the assigned worker's XP has been incremented.
C12_FailedReleaseNotHalfApplied ==
    [][ ( /\ last'.op = "record-release-escrow" /\ ~last'.ok
          /\ last'.gig \in DOMAIN gigs
          /\ gigs[last'.gig].assignedFreelancerId # Null
          /\ gigs[last'.gig].status # "COMPLETED"
          /\ gigs'[last'.gig].status = "COMPLETED" )
        => LET F == gigs[last'.gig].assignedFreelancerId IN
             F \in DOMAIN xp' /\ xp'[F] = XpOf(F) + xpToAward ]_vars

\* C15: when a page fetch of a channel fails, that channel's replay writes
\* nothing for this run: a failed gig channel leaves the stored gigs, a failed
\* profile channel the stored profiles, and a failed message channel the
\* stored messages as the earlier runs committed them.
C15_FailedFetchWritesNothing ==
    [][ \A okG, okP, okM \in 0..MaxLog :
          SyncFromMirrorNode(okG, okP, okM)
            => /\ okG < NumPages(gigsTopic) => gigs' = gigs
               /\ okP < NumPages(profilesTopic) => profiles' = profiles
               /\ okM < NumPages(messagesTopic) => messages' = messages ]_vars

\* C16: a complete run of syncFromMirrorNode that directly follows a complete
\* run over the same logs leaves the stored gigs, profiles and messages as the
\* first run left them.
C16_ReplayTwiceSameAsOnce ==
    [][ ( /\ last.op = "replay" /\ last.ok
          /\ last'.op = "replay" /\ last'.ok )
        => /\ gigs' = gigs
           /\ profiles' = profiles
           /\ messages' = messages ]_vars

\* C16 witness: a complete run has materialized a gig, a profile that two
\* PROFILE_CREATE messages name, and a message.
C16_Witness ==
    /\ last.op = "replay" /\ last.ok
    /\ DOMAIN gigs # {}
    /\ DOMAIN profiles # {} /\ Len(profilesTopic) >= 2
    /\ Len(messages) >= 1

\* message n of the log is a GIG_UPDATE that no earlier GIG_CREATE of the log
\* names
UpdateBeforeCreate(log, n) ==
    /\ log[n].type = "GIG_UPDATE"
    /\ ~\E m \in 1..(n - 1) : log[m].type = "GIG_CREATE" /\ log[m].gigRefId = log[n].gigRefId

\* the last message of the log that names gig g is a GIG_CREATE
EndsWithCreate(log, g) ==
    \E n \in 1..Len(log) :
        /\ log[n].type = "GIG_CREATE" /\ log[n].gigRefId = g
        /\ \A m \in (n + 1)..Len(log) : log[m].gigRefId # g

\* C17: on every gig channel log, a GIG_UPDATE whose gigRefId no earlier
\* GIG_CREATE of the log names leaves the folded gigs as they were (no record
\* is created, none is changed); the store holds no gig without a GIG_CREATE,
\* and a GIG_CREATE that comes after such an update materializes unassigned.
C17_UpdateBeforeCreateDropped ==
    /\ \A n \in 1..Len(gigsTopic) :
          UpdateBeforeCreate(gigsTopic, n)
              => FoldGigs(gigsTopic, n) = FoldGigs(gigsTopic, n - 1)
    /\ \A g \in DOMAIN gigs :
          \E n \in 1..Len(gigsTopic) :
              gigsTopic[n].type = "GIG_CREATE" /\ gigsTopic[n].gigRefId = g
    /\ (last.op = "replay" /\ last.ok)
          => \A g \in Gigs :
                EndsWithCreate(gigsTopic, g)
                    => /\ g \in DOMAIN gigs
                       /\ gigs[g].status = "OPEN"
                       /\ gigs[g].assignedFreelancerId = Null

\* C17 witness: a complete run over a log that holds a GIG_UPDATE before any
\* GIG_CREATE of its gig has stored another gig and no record for that one.
C17_Witness ==
    /\ last.op = "replay" /\ last.ok
    /\ DOMAIN gigs # {}
    /\ \E n \in 1..Len(gigsTopic) :
          UpdateBeforeCreate(gigsTopic, n) /\ gigsTopic[n].gigRefId \notin DOMAIN gigs

\* what a GIG_CREATE message is to materialize as
MaterializedCreate(m, gig) ==
    /\ gig.visibility = (IF m.visibility = Absent THEN "PUBLIC" ELSE m.visibility)
    /\ gig.status = "OPEN"
    /\ gig.escrowContractId = Null
    /\ gig.assignedFreelancerId = Null

\* C18: a GIG_CREATE without a visibility materializes as a gig with visibility
\* PUBLIC, status OPEN, escrowContractId null and assignedFreelancerId null,
\* and a GIG_CREATE that carries a visibility keeps it: in the fold at that
\* message, and in the store after a complete run over a log whose last message
\* for the gig it is.
C18_CreateDefaultsVisibility ==
    /\ \A n \in 1..Len(gigsTopic) :
          gigsTopic[n].type = "GIG_CREATE"
              => /\ gigsTopic[n].gigRefId \in DOMAIN FoldGigs(gigsTopic, n)
                 /\ MaterializedCreate(gigsTopic[n],
                                       FoldGigs(gigsTopic, n)[gigsTopic[n].gigRefId])
    /\ (last.op = "replay" /\ last.ok)
          => \A n \in 1..Len(gigsTopic) :
                ( /\ gigsTopic[n].type = "GIG_CREATE"
                  /\ \A m \in (n + 1)..Len(gigsTopic) :
                        gigsTopic[m].gigRefId # gigsTopic[n].gigRefId )
                => /\ gigsTopic[n].gigRefId \in DOMAIN gigs
                   /\ MaterializedCreate(gigsTopic[n], gigs[gigsTopic[n].gigRefId])

\* C18 witness: a complete run has stored one gig as PUBLIC from a GIG_CREATE
\* without visibility and another as PRIVATE from a GIG_CREATE carrying it.
C18_Witness ==
    /\ last.op = "replay" /\ last.ok
    /\ \E n \in 1..Len(gigsTopic) :
          /\ gigsTopic[n].type = "GIG_CREATE" /\ gigsTopic[n].visibility = Absent
          /\ gigsTopic[n].gigRefId \in DOMAIN gigs
          /\ gigs[gigsTopic[n].gigRefId].visibility = "PUBLIC"
    /\ \E g \in DOMAIN gigs : gigs[g].visibility = "PRIVATE"

\* C13: when the resolver fails during record-assignment (it gives up or
\* rethrows), the request leaves the gig as it was: no step of the resolver
\* and no response after a failed resolution changes a gig; when the resolver
\* returns, the response step stores the resolved id together with status
\* IN_PROGRESS and the worker.
C13_ResolverFailureLeavesGig ==
    [][ /\ (res' # res /\ res'.pc # "responded") => gigs' = gigs
        /\ (res.pc = "thrown" /\ res'.pc = "responded") => gigs' = gigs
        /\ (res.pc = "returned" /\ res'.pc = "responded" /\ res.gig \in DOMAIN gigs)
              => /\ gigs'[res.gig].status = "IN_PROGRESS"
                 /\ gigs'[res.gig].assignedFreelancerId = res.who
                 /\ gigs'[res.gig].escrowContractId = res.result
                 /\ res.result \in ContractIds ]_vars

\* C13 witness: a request whose resolver gave up after its last poll has been
\* answered, and its gig is stored OPEN and unassigned.
C13_Witness ==
    /\ res.pc = "responded" /\ res.result = Null /\ res.polls = maxAttempts
    /\ last.op = "record-assignment-resolved" /\ ~last.ok
    /\ res.gig \in DOMAIN gigs
    /\ gigs[res.gig].status = "OPEN"
    /\ gigs[res.gig].assignedFreelancerId = Null

\* C14: the resolver never polls more than 5 times; a wait separates each poll
\* from the one before; when every answer is 404 it ends after exactly 5 polls
\* with its timeout failure; and a started resolution always ends (returns or
\* throws).
C14_ResolverStopsAfterFivePolls ==
    /\ [](res.polls <= 5)
    /\ [](res.pc = "poll" => res.waits = res.polls)
    /\ []((res.pc = "thrown" /\ res.only404) => (res.polls = 5 /\ res.waits >= 4))
    /\ (res.pc \in {"poll", "wait"}) ~> (res.pc \in {"returned", "thrown"})

\* C14 witness: the resolver has thrown its timeout failure after five polls
\* that were all answered 404.
C14_Witness ==
    /\ res.pc = "thrown" /\ res.only404
    /\ res.polls = 5 /\ res.result = Null

\* C19: an apply by a freelancer who already holds an application for the
\* PUBLIC OPEN gig is rejected with 409 Conflict, and the store still holds that
\* one application, unchanged.
C19_SecondApplyConflicts ==
    [][ ( /\ last'.op = "apply"
          /\ last'.gig \in DOMAIN gigs
          /\ gigs[last'.gig].visibility = "PUBLIC"
          /\ gigs[last'.gig].status = "OPEN"
          /\ <<last'.gig, last'.who>> \in DOMAIN applications )
        => /\ ApplyStatus(last'.gig, last'.who) = 409
           /\ ~last'.ok
           /\ applications' = applications ]_vars

\* C19 witness: an apply has been refused for a PUBLIC OPEN gig, which happens
\* only for a freelancer whose first application is stored.
C19_Witness ==
    /\ last.op = "apply" /\ ~last.ok
    /\ last.gig \in DOMAIN gigs
    /\ gigs[last.gig].visibility = "PUBLIC"
    /\ gigs[last.gig].status = "OPEN"
    /\ <<last.gig, last.who>> \in DOMAIN applications
    /\ applications[<<last.gig, last.who>>] = "PENDING"

\* C20: under any interleaving of requests the store never holds two
\* applications for one (gig, freelancer), two reviews for one (gig, reviewer)
\* or two rewards for one (account, rewardId).
C20_StoreKeysUnique ==
    \A c \in Collections :
        \A i, j \in 1..Len(inserted[c]) : inserted[c][i] = inserted[c][j] => i = j

\* C20 witness: two apply requests for the same (gig, freelancer) both passed
\* the look-up; one was answered 201 and the other's insert was refused (500);
\* a reward is stored as well.
C20_Witness ==
    /\ ins["r1"].pc = "responded" /\ ins["r2"].pc = "responded"
    /\ ins["r1"].coll = "applications" /\ ins["r2"].coll = "applications"
    /\ ins["r1"].key = ins["r2"].key
    /\ ins["r1"].status = 201 /\ ins["r2"].status = 500
    /\ Len(inserted["applications"]) = 1
    /\ Len(inserted["rewards"]) >= 1

\* C21: a review is stored only by a submission whose gig is COMPLETED or
\* COMPLETED_BY_ARBITER at that moment; a submission for a gig in any other
\* status (or for no gig) fails and leaves the Review collection as it was.
C21_ReviewOnlyForCompletedGig ==
    [][/\ reviews' # reviews =>
            /\ last'.op = "submit-review" /\ last'.ok
            /\ last'.gig \in DOMAIN gigs
            /\ gigs[last'.gig].status \in CompletedStatuses
       /\ \A g \in Gigs, a \in Clients \cup Freelancers :
            (SubmitReview(g, a) /\ (g \notin DOMAIN gigs \/ gigs[g].status \notin CompletedStatuses))
                => reviews' = reviews /\ ~last'.ok]_vars

\* a participant's submission for a gig in progress was refused while the
\* collection holds a review of a completed gig
C21_Witness ==
    /\ last.op = "submit-review" /\ ~last.ok
    /\ last.gig \in DOMAIN gigs
    /\ gigs[last.gig].status = "IN_PROGRESS"
    /\ last.who \in {gigs[last.gig].clientId, gigs[last.gig].assignedFreelancerId}
    /\ Len(reviews) >= 1

\* C22: on a completed gig, a review by the gig's client is stored as
\* CLIENT_TO_FREELANCER about assignedFreelancerId, a review by the assigned
\* freelancer as FREELANCER_TO_CLIENT about clientId, and a submission by
\* anyone else is rejected and stores nothing.
C22_ReviewTypeAndReviewee ==
    [][\A g \in Gigs, a \in Clients \cup Freelancers :
          (SubmitReview(g, a) /\ g \in DOMAIN gigs /\ gigs[g].status \in CompletedStatuses) =>
             /\ a \notin {gigs[g].clientId, gigs[g].assignedFreelancerId}
                   => reviews' = reviews /\ ~last'.ok
             /\ reviews' # reviews =>
                   LET review == reviews'[Len(reviews')] IN
                     /\ a = gigs[g].clientId =>
                           /\ review.reviewType = "CLIENT_TO_FREELANCER"
                           /\ review.revieweeId = gigs[g].assignedFreelancerId
                     /\ a = gigs[g].assignedFreelancerId =>
                           /\ review.reviewType = "FREELANCER_TO_CLIENT"
                           /\ review.revieweeId = gigs[g].clientId]_vars

\* C23: no step lowers the XP counter of any account (an account without an
\* XP document counts as 0), and a step that changes the XP collection is a
\* record-release-escrow.
C23_XpMonotoneOnlyByRelease ==
    [][/\ \A a \in Clients \cup Freelancers : XpOf(a)' >= XpOf(a)
       /\ DOMAIN xp \subseteq DOMAIN xp'
       /\ xp' # xp => last'.op = "record-release-escrow"]_vars

\* a release has awarded the assigned freelancer its points
C23_Witness ==
    /\ last.op = "record-release-escrow"
    /\ \E g \in DOMAIN gigs :
          /\ last.gig = g
          /\ gigs[g].assignedFreelancerId \in Freelancers
          /\ XpOf(gigs[g].assignedFreelancerId) = xpToAward

\* the collections of the Entity Store
Store == <<gigs, applications, invitations, xp, profiles, messages, inserted, reviews>>

\* C24: prepare-assignment for a gig that does not exist, is not owned by the
\* supplied clientId or is not OPEN answers with an error, executes no ledger
\* transaction (no bytecode file create or append) and leaves the store as it was.
C24_InvalidPrepareAssignmentIssuesNothing ==
    [][\A g \in Gigs, c \in Clients, f \in Freelancers, executed \in 0..BytecodeChunks :
          (/\ PrepareAssignment(g, c, f, executed)
           /\ \/ g \notin DOMAIN gigs
              \/ gigs[g].clientId # c
              \/ gigs[g].status # "OPEN")
          => /\ ~last'.ok
             /\ last'.ledger = << >>
             /\ UNCHANGED Store]_vars

\* a prepare-assignment for a gig in progress was refused and executed no
\* ledger transaction
C24_Witness ==
    /\ last.op = "prepare-assignment" /\ ~last.ok
    /\ last.ledger = << >>
    /\ last.gig \in DOMAIN gigs
    /\ gigs[last.gig].status = "IN_PROGRESS"

\* C25: prepare-lock-escrow and prepare-release-escrow answer with a payload
\* only for an existing gig that is IN_PROGRESS and whose client is the caller;
\* for any other status or caller they fail.
C25_EscrowPrepareChecksOwnerAndStatus ==
    [][\A g \in Gigs, c \in Clients :
          (PrepareLockEscrow(g, c) \/ PrepareReleaseEscrow(g, c)) =>
             (last'.ok => /\ g \in DOMAIN gigs
                          /\ gigs[g].clientId = c
                          /\ gigs[g].status = "IN_PROGRESS")]_vars

\* C26: a prepare call (prepare-creation, prepare-assignment,
\* prepare-lock-escrow, prepare-release-escrow) leaves every collection of the
\* Entity Store, and so every gig, as it was, whether it answers with a
\* payload or with an error.
C26_PrepareLeavesStore ==
    [][/\ \A g \in Gigs, c \in Clients \cup {Null}, v \in {"PUBLIC", "PRIVATE"} :
             PrepareCreation(g, c, v) => UNCHANGED Store
       /\ \A g \in Gigs, c \in Clients, f \in Freelancers, executed \in 0..BytecodeChunks :
             PrepareAssignment(g, c, f, executed) => UNCHANGED Store
       /\ \A g \in Gigs, c \in Clients :
             (PrepareLockEscrow(g, c) \/ PrepareReleaseEscrow(g, c)) => UNCHANGED Store]_vars

\* prepare-assignment has staged the bytecode and answered with the payloads,
\* and the gig is still OPEN and unassigned
C26_Witness ==
    /\ last.op = "prepare-assignment" /\ last.ok
    /\ Len(last.ledger) = BytecodeChunks
    /\ gigs[last.gig].status = "OPEN"
    /\ gigs[last.gig].assignedFreelancerId = Null

\* the source state each function requires and the state it leads to
EscrowTransition(fn) ==
    CASE fn = "constructor" -> <<"None", "Created">>
      [] fn = "initEscrow" -> <<"Created", "Initialized">>
      [] fn = "lockFunds" -> <<"Initialized", "Locked">>
      [] fn = "releaseFunds" -> <<"Locked", "Released">>
      [] fn = "cancelEscrow" -> <<"Locked", "Cancelled">>
      [] OTHER -> <<"None", "None">>

\* C27: the escrow state moves only along Created -> Initialized -> Locked ->
\* (Released | Cancelled): a step that changes it is the successful call of the
\* one function for that move, made in that function's source state; a call
\* made in any other state reverts and leaves the storage; Released and
\* Cancelled are never left.
C27_EscrowStateMachine ==
    [][/\ escrow'.currentState # escrow.currentState =>
            /\ last'.ok
            /\ <<escrow.currentState, escrow'.currentState>> = EscrowTransition(last'.op)
       /\ \A fn \in {"initEscrow", "lockFunds", "releaseFunds", "cancelEscrow"} :
            (/\ last' # last
             /\ last'.op = fn
             /\ escrow.currentState # EscrowTransition(fn)[1])
            => ~last'.ok /\ escrow' = escrow
       /\ escrow.currentState \in {"Released", "Cancelled"} => escrow' = escrow]_vars

\* the contract is Released and a further call has reverted
C27_Witness ==
    /\ escrow.currentState = "Released"
    /\ last.op = "cancelEscrow" /\ ~last.ok
    /\ last.who = escrow.arbiter

\* C28: in the Locked state a releaseFunds or a cancelEscrow sent by the
\* arbiter, whoever the client is and with no call by the client, is executed
\* and leaves the contract Released or Cancelled (the refund or payment of the
\* call going through).
C28_ArbiterAloneReleasesOrCancels ==
    [][escrow.currentState = "Locked" =>
          /\ ReleaseFundsCall(escrow.arbiter, TRUE)
                => last'.ok /\ escrow'.currentState = "Released"
          /\ CancelEscrowCall(escrow.arbiter, TRUE)
                => last'.ok /\ escrow'.currentState = "Cancelled"]_vars

\* the arbiter, who is neither the client nor the freelancer, has released
\* the locked funds
C28_Witness ==
    /\ escrow.currentState = "Released"
    /\ last.op = "releaseFunds" /\ last.ok
    /\ last.who = escrow.arbiter
    /\ escrow.arbiter \notin {escrow.client, escrow.freelancer}

\* C29: a contract deployed from the prepare-assignment payload and then
\* locked has the platform account as its arbiter, and a release or cancel
\* sent through the arbiter endpoints for it is executed.
C29_PlatformIsArbiterOfDeployedEscrow ==
    [][/\ escrow'.currentState = "Locked" => escrow'.arbiter = myAccountId
       /\ \A k \in ContractIds :
            (escrow.currentState = "Locked" /\ (ArbiterRelease(k, TRUE) \/ ArbiterCancel(k, TRUE)))
               => last'.ok]_vars

\* C30: when an arbiter release of the contract linked to a gig succeeds, the
\* gig's status is COMPLETED_BY_ARBITER afterwards; when an arbiter cancel
\* succeeds, it is CANCELLED_BY_ARBITER.
C30_ArbiterOutcomeSetsGigStatus ==
    [][\A k \in ContractIds, success \in BOOLEAN, g \in DOMAIN gigs :
          gigs[g].escrowContractId = k =>
             /\ (ArbiterRelease(k, success) /\ last'.ok)
                   => gigs'[g].status = "COMPLETED_BY_ARBITER"
             /\ (ArbiterCancel(k, success) /\ last'.ok)
                   => gigs'[g].status = "CANCELLED_BY_ARBITER"]_vars

\* C31: a request for the messages of a gig returns messages only when the
\* requester is the gig's client or its assigned freelancer; any other
\* requester obtains no message of the gig.
C31_MessagesOnlyForParticipants ==
    [][\A g \in Gigs, requester \in Clients \cup Freelancers :
          (/\ GetGigMessages(g, requester)
           /\ g \in DOMAIN gigs
           /\ requester \notin {gigs[g].clientId, gigs[g].assignedFreelancerId})
          => last'.body = << >>]_vars

\* C32: in the resolver only a 404 answer leads to the wait and another poll;
\* an answer without the entity id, or any other error, makes the resolver
\* throw on that same attempt, and after it has thrown no further poll is
\* made, whatever number of attempts remains.
C32_OnlyNotFoundIsRetried ==
    [][/\ \A answer \in IndexerAnswers :
            Poll(answer) =>
               /\ res'.polls = res.polls + 1
               /\ res'.pc = "wait" <=> answer = "404"
               /\ answer \in {"no-entity", "error"} => res'.pc = "thrown" /\ res'.result = Null
       /\ res.pc = "thrown" => res'.pc \in {"thrown", "responded"} /\ res'.polls = res.polls]_vars

\* the resolver has thrown on its second poll, after one 404, with attempts left
C32_Witness ==
    /\ res.pc = "thrown" /\ ~res.only404
    /\ res.polls = 2 /\ res.waits = 1
    /\ res.polls < maxAttempts
    /\ res.result = Null

\* C33: when a record-assignment makes a gig IN_PROGRESS after its contract
\* was deployed from the prepared transaction, the contract is Initialized with the gig's client as client and the assigned
\* freelancer as freelancer, so that the client's lockFunds is accepted.
C33_AssignedGigHasInitializedEscrow ==
    [][\A g \in Gigs :
          (/\ g \in DOMAIN gigs /\ gigs[g].status # "IN_PROGRESS"
           /\ gigs'[g].status = "IN_PROGRESS"
           /\ escrow # NoContract)
          => /\ escrow'.currentState = "Initialized"
             /\ escrow'.client = gigs'[g].clientId
             /\ escrow'.freelancer = gigs'[g].assignedFreelancerId
             /\ lockFunds(escrow', gigs'[g].clientId, 1).ok]_vars

\* the positions of the PROFILE_CREATE events for account a in the log
ProfileEventsOf(log, a) ==
    {n \in 1..Len(log) : log[n].type = "PROFILE_CREATE" /\ log[n].userAccountId = a}

\* the last of them
LastProfileEvent(log, a) ==
    log[CHOOSE n \in ProfileEventsOf(log, a) : \A k \in ProfileEventsOf(log, a) : k <= n]

\* C34: after a replay that fetched the whole profile channel, the stored
\* profile of every account with an event in the log has exactly the fields
\* of the account's last PROFILE_CREATE event: nothing of an earlier event or
\* of the record stored before the replay is left.
C34_ReplayedProfileIsLastEvent ==
    [][\A okP \in 0..MaxLog :
          (SyncFromMirrorNode(1, okP, 1) /\ last'.ok) =>
             \A a \in Freelancers :
                ProfileEventsOf(profilesTopic, a) # {} =>
                   /\ a \in DOMAIN profiles'
                   /\ profiles'[a] = ProfileFields(LastProfileEvent(profilesTopic, a))]_vars

\* C35: lockFunds is executed only for the client sending a positive amount,
\* releaseFunds only for the client or the arbiter, cancelEscrow only for the
\* client, the freelancer or the arbiter; every other call reverts and leaves
\* storage and balance as they were.  A freelancer who is neither client nor
\* arbiter never gets releaseFunds executed.
C35_OnlyEntitledCallersSucceed ==
    [][/\ \A sender \in Accounts, value \in 0..MaxAmount :
            LockFundsCall(sender, value) =>
               /\ last'.ok => sender = escrow.client /\ value > 0
               /\ ~last'.ok => escrow' = escrow
       /\ \A sender \in Accounts, success \in BOOLEAN :
            ReleaseFundsCall(sender, success) =>
               /\ last'.ok => sender \in {escrow.client, escrow.arbiter}
               /\ ~last'.ok => escrow' = escrow
       /\ \A sender \in Accounts, success \in BOOLEAN :
            CancelEscrowCall(sender, success) =>
               /\ last'.ok => sender \in {escrow.client, escrow.freelancer, escrow.arbiter}
               /\ ~last'.ok => escrow' = escrow]_vars

\* the freelancer's own releaseFunds on the locked contract has reverted, the
\* funds still in the contract
C35_Witness ==
    /\ escrow.currentState = "Locked"
    /\ last.op = "releaseFunds" /\ ~last.ok
    /\ last.who = escrow.freelancer
    /\ escrow.freelancer \notin {escrow.client, escrow.arbiter}
    /\ escrow.balance = escrow.amount /\ escrow.amount > 0

\* C36: the contract has transferred nothing out before it is Released or
\* Cancelled; in Released it has made exactly one transfer, of the locked
\* amount to the freelancer, in Cancelled exactly one, of the locked amount to
\* the client; it never pays both or twice, and while Locked it holds the
\* locked amount.
C36_PaysOnceToOneParty ==
    /\ escrow.currentState \notin {"Released", "Cancelled"} => escrow.paid = << >>
    /\ escrow.currentState = "Locked" => escrow.balance = escrow.amount
    /\ escrow.currentState = "Released" =>
          escrow.paid = << <<escrow.freelancer, escrow.amount>> >> /\ escrow.balance = 0
    /\ escrow.currentState = "Cancelled" =>
          escrow.paid = << <<escrow.client, escrow.amount>> >> /\ escrow.balance = 0
    /\ Len(escrow.paid) <= 1

\* the funds were cancelled back to the client, and a later release by the
\* arbiter has reverted without a second transfer
C36_Witness ==
    /\ escrow.currentState = "Cancelled"
    /\ escrow.paid = << <<escrow.client, escrow.amount>> >>
    /\ escrow.amount > 0
    /\ last.op = "releaseFunds" /\ ~last.ok
    /\ last.who = escrow.arbiter

\* C37: a record-release-escrow repeated for a gig that a successful release
\* has already made COMPLETED awards nothing: over any number of releases of
\* one gig the assigned freelancer's XP rises by 100 once at most.
C37_RepeatedReleaseAwardsOnce ==
    [][\A g \in Gigs, t \in ReleaseThrows :
          (/\ RecordReleaseEscrow(g, t)
           /\ g \in DOMAIN gigs
           /\ gigs[g].status = "COMPLETED"
           /\ last = Response("record-release-escrow", g, Null, TRUE))
          => xp' = xp]_vars


\* C38: when record-release-escrow requests for distinct gigs of one worker
\* run concurrently, the worker's XP is 100 for every request whose XP write
\* has been applied, in every interleaving; so it ends 100*N higher, also when
\* the XP record is created by the upsert of one of the requests
C38_ConcurrentReleasesLoseNoIncrement ==
    \A f \in Freelancers :
        XpOf(f) = xpToAward * Cardinality({r \in Requests :
                                  rel[r].freelancerId = f /\ rel[r].pc \in Awarded})

\* two releases for one worker have responded; one created the XP record and
\* the other met the duplicate key
C38_Witness ==
    /\ \A r \in Requests : rel[r].pc = "responded"
    /\ rel["r1"].freelancerId = rel["r2"].freelancerId
    /\ {rel[r].upsert : r \in Requests} = {"inserted", "retried"}
    /\ XpOf(rel["r1"].freelancerId) = 2 * xpToAward


\* C39: an application's decision is final: no accept or reject request
\* changes the status of an application that is ACCEPTED or REJECTED
C39_ApplicationDecisionIsFinal ==
    [][\A a \in Pairs, c \in Clients :
          (/\ a \in DOMAIN applications
           /\ applications[a] \in {"ACCEPTED", "REJECTED"}
           /\ (AcceptApplication(a, c) \/ RejectApplication(a, c)))
          => applications'[a] = applications[a]]_vars


\* C40: every stored review has a revieweeId different from its reviewerId,
\* and the revieweeId is the other participant of the review's gig: the
\* gig's client or its assigned worker
C40_RevieweeIsTheOtherParticipant ==
    \A n \in 1..Len(reviews) :
        /\ reviews[n].revieweeId # reviews[n].reviewerId
        /\ reviews[n].gigRefId \in DOMAIN gigs
        /\ reviews[n].revieweeId \in {gigs[reviews[n].gigRefId].clientId,
                                      gigs[reviews[n].gigRefId].assignedFreelancerId}

====
